---- MODULE Spec2Model ----
(***************************************************************************)
(* Logistics network optimisation engine: entity model, assignment policy, *)
(* cost model, coordinate search optimizer (CoordinateOptimizer), genetic  *)
(* optimizer (GeneticOptimizer) and main.run_comparison.                   *)
(*                                                                         *)
(* Python floats are modelled as a small binary floating-point format:     *)
(* a number is an integer count of 1/Unit (Unit = 2^FracBits), every       *)
(* arithmetic result is rounded to MantBits significant bits, ties to      *)
(* even, as IEEE-754 does with 53 bits.                                    *)
(***************************************************************************)
EXTENDS Integers, Sequences, FiniteSets, TLC

VARIABLES input, heap, mpo, ga, cmp, probe

vars == <<input, heap, mpo, ga, cmp, probe>>

----------------------------------------------------------------------------
(* Bounds of the model *)

\* fractional bits of the float format (the quantum is 1/2^FracBits)
FracBits == 3
\* significant bits of the float format (IEEE double has 53)
MantBits == 8
\* number of terminals of an input network
NumTerminals == 2
\* number of consumers of an input network
NumConsumers == 2
\* largest max_iterations handed to CoordinateOptimizer
MaxIterations == 2
\* largest generations handed to GeneticOptimizer
MaxGenerations == 2
\* largest population_size handed to GeneticOptimizer
MaxPopulation == 3
\* generations of a run that is made twice
TwinGenerations == 1

----------------------------------------------------------------------------
(* Float arithmetic *)

\* None (an unset initial_cost / final_cost / assigned_terminal)
None == -1

Unit == 2 ^ FracBits

\* float(n) of an integer n
F(n) == n * Unit

Sign(n) == IF n < 0 THEN 0 - 1 ELSE 1

FAbs(a) == IF a < 0 THEN 0 - a ELSE a

\* spacing of the representable numbers at magnitude n >= 0
RECURSIVE Ulp(_)
Ulp(n) == IF n < 2 ^ MantBits THEN 1 ELSE 2 * Ulp(n \div 2)

\* the multiple of u below q
Floor(q, u) == (q \div u) * u

\* of lo and lo + u the one nearest to num/den, ties to the even multiple of u
Nearest(num, den, u, lo) ==
    IF 2 * (num - lo * den) < u * den THEN lo
    ELSE IF 2 * (num - lo * den) > u * den THEN lo + u
    ELSE IF (lo \div u) % 2 = 0 THEN lo ELSE lo + u

RoundQ(num, den, q) == Nearest(num, den, Ulp(q), Floor(q, Ulp(q)))

\* the representable number nearest to num/den (num >= 0, den > 0)
RoundRat(num, den) == RoundQ(num, den, num \div den)

\* rounding of a signed rational
Fl(num, den) == Sign(num) * RoundRat(FAbs(num), den)

FAdd(a, b) == Fl(a + b, 1)
FSub(a, b) == Fl(a - b, 1)
FMul(a, b) == Fl(a * b, Unit)

ISqrtUp(n, s) == IF (s + 1) * (s + 1) <= n THEN s + 1 ELSE s

\* floor of the square root of n
RECURSIVE ISqrt(_)
ISqrt(n) == IF n < 2 THEN n ELSE ISqrtUp(n, 2 * ISqrt(n \div 4))

\* of lo and lo + u the one nearest to sqrt(n), ties to the even multiple of u
SqrtNearest(n, u, lo) ==
    IF 4 * n < (2 * lo + u) * (2 * lo + u) THEN lo
    ELSE IF 4 * n > (2 * lo + u) * (2 * lo + u) THEN lo + u
    ELSE IF (lo \div u) % 2 = 0 THEN lo ELSE lo + u

SqrtQ(n, s) == SqrtNearest(n, Ulp(s), Floor(s, Ulp(s)))

\* math.sqrt, correctly rounded
FSqrt(a) == SqrtQ(a * Unit, ISqrt(a * Unit))

\* the literal 0.1
Tenth == Fl(Unit, 10)

\* int(x) of a float x (truncation towards zero)
Trunc(a) == Sign(a) * (FAbs(a) \div Unit)

\* sum(...) of a sequence of floats, left to right from 0
RECURSIVE FSum(_)
FSum(s) == IF s = <<>> THEN 0 ELSE FAdd(FSum(SubSeq(s, 1, Len(s) - 1)), s[Len(s)])

----------------------------------------------------------------------------
(* services/distance.py *)

\* float('inf')
Inf == 2 ^ 30

Square(d) == FMul(d, d)

euclidean_distance(elem1, elem2) ==
    FSqrt(FAdd(Square(FSub(elem2.x, elem1.x)), Square(FSub(elem2.y, elem1.y))))

\* find_nearest_terminal without the active_only filter
AllTerminals(terminals, active_only) == terminals

\* available_terminals of find_nearest_terminal
Available(terminals, active_only) ==
    IF active_only THEN SelectSeq(terminals, LAMBDA t : t.is_active) ELSE terminals

\* the for loop of find_nearest_terminal from the k-th available terminal on;
\* nearest is the index of the nearest one so far (0: None)
RECURSIVE NearestScan(_, _, _, _, _)
\* a scan that lets a later terminal at the same distance win
NearestStepLast(consumer, available, k, nearest, min_distance, distance) ==
    NearestScan(consumer, available, k + 1,
                IF distance <= min_distance THEN k ELSE nearest,
                IF distance <= min_distance THEN distance ELSE min_distance)
NearestStep(consumer, available, k, nearest, min_distance, distance) ==
    NearestScan(consumer, available, k + 1,
                IF distance < min_distance THEN k ELSE nearest,
                IF distance < min_distance THEN distance ELSE min_distance)
NearestScan(consumer, available, k, nearest, min_distance) ==
    IF k > Len(available)
    THEN [raised |-> FALSE, nearest |-> available[nearest], min_distance |-> min_distance]
    ELSE NearestStep(consumer, available, k, nearest, min_distance,
                     euclidean_distance(consumer, available[k]))

\* a search that also gives up on a single available terminal
NearestOfSeveral(consumer, available) ==
    IF Len(available) <= 1 THEN [raised |-> TRUE]
    ELSE NearestScan(consumer, available, 1, 0, Inf)

\* raise ValueError when nothing is available, else scan
NearestOf(consumer, available) ==
    IF available = <<>> THEN [raised |-> TRUE]
    ELSE NearestScan(consumer, available, 1, 0, Inf)

find_nearest_terminal(consumer, terminals, active_only) ==
    NearestOf(consumer, Available(terminals, active_only))

----------------------------------------------------------------------------
(* models/network.py *)

\* the loop of assign_consumers_to_terminals from the k-th consumer on:
\* result [raised, net]; a ValueError of find_nearest_terminal ends the loop
RECURSIVE AssignFrom(_, _)
AssignStep(net, k, r) ==
    IF r.raised THEN [raised |-> TRUE, net |-> net]
    ELSE AssignFrom([net EXCEPT !.consumers[k].assigned_terminal = r.nearest.id], k + 1)
AssignFrom(net, k) ==
    IF k > Len(net.consumers) THEN [raised |-> FALSE, net |-> net]
    ELSE AssignStep(net, k, find_nearest_terminal(net.consumers[k], net.terminals, TRUE))

assign_consumers_to_terminals(net) == AssignFrom(net, 1)

\* LogisticsNetwork.__init__: keeps the three lists, then _initialize_network
\* (find_nearest_terminal with its default active_only=True)
_initialize_network(centers, terminals, consumers) ==
    AssignFrom([centers |-> centers, terminals |-> terminals, consumers |-> consumers], 1)

get_center(net) == net.centers[1]

get_active_terminals(net) == SelectSeq(net.terminals, LAMBDA t : t.is_active)

----------------------------------------------------------------------------
(* services/cost_calculator.py *)

transport_cost_per_unit == 1

\* [c for c in consumers if c.assigned_terminal == terminal.id]
terminal_consumers(terminal, consumers) ==
    SelectSeq(consumers, LAMBDA c : c.assigned_terminal = terminal.id)

\* sum(c.demand for c in terminal_consumers)
total_demand(cs) == FSum([i \in DOMAIN cs |-> cs[i].demand])

TerminalCosts(ts) == [i \in DOMAIN ts |-> ts[i].terminal_cost]

calculate_terminal_fixed_costs(terminals) ==
    FSum(TerminalCosts(SelectSeq(terminals, LAMBDA t : t.is_active)))

\* the loop of calculate_processing_costs from the k-th terminal on
RECURSIVE ProcessingFrom(_, _, _, _)
ProcessingFrom(terminals, consumers, k, total_cost) ==
    IF k > Len(terminals) THEN total_cost
    ELSE ProcessingFrom(terminals, consumers, k + 1,
            IF ~terminals[k].is_active THEN total_cost
            ELSE FAdd(total_cost,
                      FMul(terminals[k].processing_cost,
                           total_demand(terminal_consumers(terminals[k], consumers)))))

calculate_processing_costs(terminals, consumers) ==
    ProcessingFrom(terminals, consumers, 1, 0)

\* the inner loop over terminal_consumers, adding to terminal_to_consumer_cost
RECURSIVE ConsumerLegs(_, _, _, _)
ConsumerLegs(t2c, terminal, cs, k) ==
    IF k > Len(cs) THEN t2c
    ELSE ConsumerLegs(FAdd(t2c, FMul(FMul(euclidean_distance(terminal, cs[k]),
                                          F(transport_cost_per_unit)),
                                     cs[k].demand)),
                      terminal, cs, k + 1)

\* the leg from the center charged at the full rate
CenterLegAtFullRate(center, terminal, cs) ==
    FMul(FMul(euclidean_distance(center, terminal), F(transport_cost_per_unit)),
         total_demand(cs))

\* distance * transport_cost_per_unit * total_demand * 0.1
CenterLeg(center, terminal, cs) ==
    FMul(FMul(FMul(euclidean_distance(center, terminal), F(transport_cost_per_unit)),
              total_demand(cs)),
         Tenth)

\* one terminal of the loop of calculate_transportation_costs
TransportVisit(center, terminal, cs, c2t, t2c) ==
    IF ~terminal.is_active \/ cs = <<>> THEN <<c2t, t2c>>
    ELSE <<FAdd(c2t, CenterLeg(center, terminal, cs)), ConsumerLegs(t2c, terminal, cs, 1)>>

RECURSIVE TransportFrom(_, _, _, _, _)
TransportFrom(center, terminals, consumers, k, acc) ==
    IF k > Len(terminals) THEN acc
    ELSE TransportFrom(center, terminals, consumers, k + 1,
            TransportVisit(center, terminals[k],
                           terminal_consumers(terminals[k], consumers), acc[1], acc[2]))

\* <<center_to_terminal_cost, terminal_to_consumer_cost, total_cost>>
TransportResult(acc) == <<acc[1], acc[2], FAdd(acc[1], acc[2])>>

calculate_transportation_costs(center, terminals, consumers) ==
    TransportResult(TransportFrom(center, terminals, consumers, 1, <<0, 0>>))

\* a breakdown whose total leaves the processing costs out
BreakdownWithoutProcessing(fixed_costs, processing_costs, tr) ==
    [fixed_costs |-> fixed_costs,
     processing_costs |-> processing_costs,
     transport_center_to_terminal |-> tr[1],
     transport_terminal_to_consumer |-> tr[2],
     transport_total |-> tr[3],
     total_cost |-> FAdd(fixed_costs, tr[3])]

\* the dictionary calculate_total_cost returns
Breakdown(fixed_costs, processing_costs, tr) ==
    [fixed_costs |-> fixed_costs,
     processing_costs |-> processing_costs,
     transport_center_to_terminal |-> tr[1],
     transport_terminal_to_consumer |-> tr[2],
     transport_total |-> tr[3],
     total_cost |-> FAdd(FAdd(fixed_costs, processing_costs), tr[3])]

calculate_total_cost(center, terminals, consumers) ==
    Breakdown(calculate_terminal_fixed_costs(terminals),
              calculate_processing_costs(terminals, consumers),
              calculate_transportation_costs(center, terminals, consumers))

\* LogisticsNetwork.calculate_costs: the breakdown of the network's own state
calculate_costs(net) ==
    calculate_total_cost(get_center(net), net.terminals, net.consumers)

\* calculate_costs()['total_cost']
total_cost(net) == calculate_costs(net).total_cost

----------------------------------------------------------------------------
(* Inputs: the entity lists the data loader hands to LogisticsNetwork.      *)
(* validate_network_data guarantees one center, unique ids, costs >= 0 and  *)
(* demand > 0.                                                              *)

CenterOptions == { [x |-> F(0), y |-> F(0)] }

\* places a caller may move a terminal to
MoveOptions ==
    { [x |-> F(0), y |-> F(0)], [x |-> F(5), y |-> F(5)], [x |-> F(3), y |-> F(4)] }

TerminalOptions ==
    { [x |-> F(0),  y |-> F(0), terminal_cost |-> F(0),  processing_cost |-> F(0)],
      [x |-> F(10), y |-> F(0), terminal_cost |-> F(8),  processing_cost |-> F(1)],
      [x |-> F(5),  y |-> F(5), terminal_cost |-> F(20), processing_cost |-> F(0)] }

ConsumerOptions ==
    { [x |-> F(0),  y |-> F(0), demand |-> F(1)],
      [x |-> F(10), y |-> F(0), demand |-> F(2)] }

\* models/element.py: Center(id, x, y)
Center(id, o) == [id |-> id, x |-> o.x, y |-> o.y]

\* models/element.py: Terminal.__init__ sets is_active = True
Terminal(id, o) ==
    [id |-> id, x |-> o.x, y |-> o.y, terminal_cost |-> o.terminal_cost,
     processing_cost |-> o.processing_cost, is_active |-> TRUE]

\* models/element.py: Consumer.__init__ sets assigned_terminal = None
Consumer(id, o) ==
    [id |-> id, x |-> o.x, y |-> o.y, demand |-> o.demand, assigned_terminal |-> None]

Inputs ==
    { [centers |-> <<Center(0, c)>>,
       terminals |-> [i \in 1 .. NumTerminals |-> Terminal(i, ts[i])],
       consumers |-> [i \in 1 .. NumConsumers |-> Consumer(NumTerminals + i, cs[i])]] :
      c \in CenterOptions,
      ts \in [1 .. NumTerminals -> TerminalOptions],
      cs \in [1 .. NumConsumers -> ConsumerOptions] }

----------------------------------------------------------------------------
(* State *)

\* optimizers/base.py Optimizer.__init__ (no optimizer object yet: pc "none")
NoOptimizer == [pc |-> "none", network |-> 0, initial_cost |-> None, final_cost |-> None]

NoProbe == [op |-> "none"]

Init ==
    /\ input \in Inputs
    /\ heap = <<>>
    /\ mpo = NoOptimizer
    /\ ga = NoOptimizer
    /\ cmp = [pc |-> "idle"]
    /\ probe = NoProbe

\* network = LogisticsNetwork(centers, terminals, consumers)
Construct ==
    /\ heap = <<>>
    /\ heap' = <<_initialize_network(input.centers, input.terminals, input.consumers).net>>
    /\ probe' = [op |-> "construct"]
    /\ UNCHANGED <<input, mpo, ga, cmp>>

----------------------------------------------------------------------------
(* The operations optimizers apply to a network, one at a time *)

\* terminal.is_active = b  (coordinate.py 232/250/255, genetic.py 110)
SetActive(k, b) ==
    /\ heap # <<>>
    /\ heap' = [heap EXCEPT ![1].terminals[k].is_active = b]
    /\ probe' = [op |-> "edit"]
    /\ UNCHANGED <<input, mpo, ga, cmp>>

\* terminal.x, terminal.y = loc  (coordinate.py 92-93, 107)
MoveTerminal(k, loc) ==
    /\ heap # <<>>
    /\ heap' = [heap EXCEPT ![1].terminals[k].x = loc.x, ![1].terminals[k].y = loc.y]
    /\ probe' = [op |-> "edit"]
    /\ UNCHANGED <<input, mpo, ga, cmp>>

ReassignTo(r) ==
    /\ heap' = [heap EXCEPT ![1] = r.net]
    /\ probe' = [op |-> "assign", raised |-> r.raised]

\* network.assign_consumers_to_terminals()
Reassign ==
    /\ heap # <<>>
    /\ ReassignTo(assign_consumers_to_terminals(heap[1]))
    /\ UNCHANGED <<input, mpo, ga, cmp>>

\* CostCalculator.calculate_total_cost(network)
CalculateCosts ==
    /\ heap # <<>>
    /\ probe' = [op |-> "costs",
                 costs |-> calculate_total_cost(get_center(heap[1]), heap[1].terminals,
                                                heap[1].consumers)]
    /\ UNCHANGED <<input, heap, mpo, ga, cmp>>

NextNet ==
    \/ Construct
    \/ \E k \in 1 .. NumTerminals, b \in BOOLEAN : SetActive(k, b)
    \/ \E k \in 1 .. NumTerminals, loc \in MoveOptions : MoveTerminal(k, loc)
    \/ Reassign
    \/ CalculateCosts

SpecNet == Init /\ [][NextNet]_vars

----------------------------------------------------------------------------
(* optimizers/base.py *)

\* the exponent e >= 0 at which a * 2^e / b has MantBits significant bits
RECURSIVE QuotientExp(_, _, _)
QuotientExp(a, b, e) ==
    IF a = 0 \/ (a * 2 ^ e) \div b >= 2 ^ (MantBits - 1) THEN e
    ELSE QuotientExp(a, b, e + 1)

ScaledMul(a, b, c, e) == Fl(Sign(a) * RoundRat(FAbs(a) * 2 ^ e, b) * c, 2 ^ e)

\* (a / b) * c for b > 0: the quotient rounded, then the product rounded
FDivMul(a, b, c) == ScaledMul(a, b, c, QuotientExp(FAbs(a), b, 0))

\* a record whose improvement is final_cost - initial_cost
ImprovementReversed(initial_cost, final_cost, absolute_improvement) ==
    [initial_cost |-> initial_cost,
     final_cost |-> final_cost,
     absolute_improvement |-> 0 - absolute_improvement,
     percentage_improvement |-> FDivMul(0 - absolute_improvement, initial_cost, F(100))]

\* lines 50-55: the dictionary get_improvement returns
ImprovementOf(initial_cost, final_cost, absolute_improvement) ==
    [initial_cost |-> initial_cost,
     final_cost |-> final_cost,
     absolute_improvement |-> absolute_improvement,
     percentage_improvement |-> FDivMul(absolute_improvement, initial_cost, F(100))]

\* the empty dictionary {}
EmptyDict == <<>>

\* Optimizer.get_improvement: [raised, value]; the division by initial_cost
\* raises ZeroDivisionError when initial_cost is 0
get_improvement(o) ==
    IF o.initial_cost = None \/ o.final_cost = None
    THEN [raised |-> FALSE, value |-> EmptyDict]
    ELSE IF o.initial_cost = 0
    THEN [raised |-> TRUE, value |-> EmptyDict]
    ELSE [raised |-> FALSE,
          value |-> ImprovementOf(o.initial_cost, o.final_cost,
                                  FSub(o.initial_cost, o.final_cost))]

\* dictionary d with d[key] = v added
WithKey(d, key, v) == [k \in DOMAIN d \cup {key} |-> IF k = key THEN v ELSE d[k]]

----------------------------------------------------------------------------
(* optimizers/coordinate.py *)

grid_step == 5
max_deactivation_iterations == 10

MinOf(S) == CHOOSE m \in S : \A n \in S : m <= n
MaxOf(S) == CHOOSE m \in S : \A n \in S : m >= n

\* range(a, b, step)
PyRange(a, b, step) == { n \in a .. (b - 1) : (n - a) % step = 0 }

ConsumerXs(net) == { net.consumers[i].x : i \in DOMAIN net.consumers }
ConsumerYs(net) == { net.consumers[i].y : i \in DOMAIN net.consumers }

\* any(abs(c.x - x) < 0.1 and abs(c.y - y) < 0.1 for c in consumers)
is_consumer_location(net, x, y) ==
    \E i \in DOMAIN net.consumers :
        /\ FAbs(FSub(net.consumers[i].x, F(x))) < Tenth
        /\ FAbs(FSub(net.consumers[i].y, F(y))) < Tenth

GridXs(net) ==
    PyRange(Trunc(MinOf(ConsumerXs(net))), Trunc(MaxOf(ConsumerXs(net))) + 1, grid_step)

GridYs(net) ==
    PyRange(Trunc(MinOf(ConsumerYs(net))), Trunc(MaxOf(ConsumerYs(net))) + 1, grid_step)

\* the set `locations` of _get_possible_locations: the grid over the consumers'
\* bounding box without the consumers' own places, plus the centers
LocationSet(net) ==
    { [x |-> F(p[1]), y |-> F(p[2])] :
        p \in { q \in GridXs(net) \X GridYs(net) : ~is_consumer_location(net, q[1], q[2]) } }
    \cup { [x |-> net.centers[i].x, y |-> net.centers[i].y] : i \in DOMAIN net.centers }

\* the lists that list(S) can be: a set is iterated in an order of its own
Orderings(S) ==
    { s \in [1 .. Cardinality(S) -> S] : \A i, j \in DOMAIN s : i # j => s[i] # s[j] }

\* _get_possible_locations returns list(locations)
_get_possible_locations(net) == Orderings(LocationSet(net))

MoveTo(net, k, loc) ==
    [net EXCEPT !.terminals[k].x = loc.x, !.terminals[k].y = loc.y]

SetFlag(net, k, b) == [net EXCEPT !.terminals[k].is_active = b]

\* a trial that is kept whatever it costs
TrialAlwaysKept(st, loc, net2, new_cost) ==
    [net |-> net2, cost |-> new_cost, loc |-> loc]

\* a comparison that lets a later location of the same cost win
TrialCompareLast(st, loc, net2, new_cost) ==
    IF new_cost <= st.cost
    THEN [net |-> net2, cost |-> new_cost, loc |-> loc]
    ELSE [st EXCEPT !.net = net2]

\* lines 102-104: keep the trial's location when its cost is lower
TrialCompare(st, loc, net2, new_cost) ==
    IF new_cost < st.cost
    THEN [net |-> net2, cost |-> new_cost, loc |-> loc]
    ELSE [st EXCEPT !.net = net2]

TrialResult(st, loc, net2) == TrialCompare(st, loc, net2, total_cost(net2))

\* lines 92-99: move terminal k to loc, reassign, cost
Trial(st, k, loc) ==
    TrialResult(st, loc, assign_consumers_to_terminals(MoveTo(st.net, k, loc)).net)

\* the loop over possible_locations (lines 86-104) from the n-th location on;
\* st = [net, cost (best_cost), loc (best_location)], orig the original place
RECURSIVE TryLocations(_, _, _, _, _)
TryLocations(st, k, locs, n, orig) ==
    IF n > Len(locs) THEN st
    ELSE TryLocations(IF locs[n] = orig THEN st ELSE Trial(st, k, locs[n]),
                      k, locs, n + 1, orig)

\* a pass that leaves the terminal where the last trial put it
PlaceLastTried(st, k) == [net |-> st.net, cost |-> st.cost]

\* lines 107-108: the terminal is put at best_location, consumers reassigned
PlaceBest(st, k) ==
    [net |-> assign_consumers_to_terminals(MoveTo(st.net, k, st.loc)).net,
     cost |-> st.cost]

Place(net, k) == [x |-> net.terminals[k].x, y |-> net.terminals[k].y]

\* lines 82-108 for the active terminal k: [net, cost (best_cost)]
OptimizeTerminal(net, k, locs, current_cost) ==
    PlaceBest(TryLocations([net |-> net, cost |-> current_cost, loc |-> Place(net, k)],
                           k, locs, 1, Place(net, k)),
              k)

\* lines 250-251 / 255-256: back to active, consumers reassigned
\* a revert that sets the flag and leaves the consumers where the trial put them
ReactivatedFlag(net, k) == SetFlag(net, k, TRUE)

\* a revert that reopens every terminal of the network
ReopenedAll(net, k) ==
    assign_consumers_to_terminals(
        [net EXCEPT !.terminals = [j \in DOMAIN net.terminals |->
                                      [net.terminals[j] EXCEPT !.is_active = TRUE]]]).net

Reactivated(net, k) == assign_consumers_to_terminals(SetFlag(net, k, TRUE)).net

\* a comparison that reverts every deactivation
DeactivationGivenUp(st, k, net2, new_cost) == [st EXCEPT !.net = Reactivated(net2, k)]

\* a comparison that keeps comparing with the cost the call was given
DeactivationStaleCost(st, k, net2, new_cost) ==
    IF new_cost < st.current_cost
    THEN [net |-> net2, current_cost |-> st.current_cost, deactivated |-> TRUE]
    ELSE [st EXCEPT !.net = Reactivated(net2, k)]

\* a comparison that also keeps a deactivation that leaves the cost as it was
DeactivationOnTie(st, k, net2, new_cost) ==
    IF new_cost <= st.current_cost
    THEN [net |-> net2, current_cost |-> new_cost, deactivated |-> TRUE]
    ELSE [st EXCEPT !.net = Reactivated(net2, k)]

\* lines 242-251
DeactivationCost(st, k, net2, new_cost) ==
    IF new_cost < st.current_cost
    THEN [net |-> net2, current_cost |-> new_cost, deactivated |-> TRUE]
    ELSE [st EXCEPT !.net = Reactivated(net2, k)]

\* a handler that swallows the ValueError without reactivating the terminal
DeactivationNotReverted(st, k, a) ==
    IF a.raised THEN [st EXCEPT !.net = a.net]
    ELSE DeactivationCost(st, k, a.net, total_cost(a.net))

\* lines 235-256: a is the result of the reassignment inside the try
Deactivation(st, k, a) ==
    IF a.raised THEN [st EXCEPT !.net = Reactivated(a.net, k)]
    ELSE DeactivationCost(st, k, a.net, total_cost(a.net))

\* lines 232-256 for the active terminal k
TryDeactivate(st, k) ==
    Deactivation(st, k, assign_consumers_to_terminals(SetFlag(st.net, k, FALSE)))

\* the loop of _try_deactivate_terminals from the k-th terminal on
RECURSIVE DeactivateFrom(_, _)
DeactivateFrom(st, k) ==
    IF k > Len(st.net.terminals) THEN st
    ELSE DeactivateFrom(IF ~st.net.terminals[k].is_active THEN st
                        ELSE TryDeactivate(st, k),
                        k + 1)

\* [net, current_cost, deactivated]: the network after the call and its result
_try_deactivate_terminals(net, current_cost) ==
    DeactivateFrom([net |-> net, current_cost |-> current_cost, deactivated |-> FALSE], 1)

\* the head of the Phase 1 while loop (lines 69-71)
WhileHead(m) ==
    IF m.pass_number < m.max_iterations
    THEN [m EXCEPT !.pc = "pass", !.pass_number = @ + 1,
                   !.pass_start_cost = m.current_cost, !.terminal_idx = 1]
    ELSE [m EXCEPT !.pc = "phase2"]

ToleranceOptions == { F(0), Tenth }

\* the object CoordinateOptimizer(network, max_iterations, tolerance) with the
\* locals of its optimize(verbose); net is the network the reference ref names
CoordinateOptimizer(ref, net, max_iterations, tolerance, verbose) ==
    [pc |-> "new", network |-> ref, initial_cost |-> None, final_cost |-> None,
     max_iterations |-> max_iterations, tolerance |-> tolerance,
     verbose |-> verbose, current_cost |-> None, pass_number |-> 0,
     pass_start_cost |-> None, terminal_idx |-> 0,
     possible_locations |-> <<>>, deactivation_iterations |-> 0,
     results |-> EmptyDict, start_network |-> net]

\* the values of verbose that make a difference: line 124 divides by
\* initial_cost only when verbose
VerboseOptions(cost) == IF cost = 0 THEN BOOLEAN ELSE {TRUE}

MpoNewWith(verbose_options) ==
    \E max_iterations \in 0 .. MaxIterations, tolerance \in ToleranceOptions,
       verbose \in verbose_options :
        mpo' = CoordinateOptimizer(1, heap[1], max_iterations, tolerance, verbose)

\* a caller makes a CoordinateOptimizer for the network and will call
\* optimize(verbose) on it
MpoNew ==
    /\ heap # <<>> /\ mpo.pc = "none" /\ ga.pc = "none" /\ cmp.pc = "idle"
    /\ MpoNewWith(VerboseOptions(total_cost(heap[1])))
    /\ probe' = NoProbe
    /\ UNCHANGED <<input, heap, ga, cmp>>

\* optimize(verbose), lines 46-66. start_network remembers the network as
\* optimize() found it.
MpoStartWith(cost) ==
    \E locs \in _get_possible_locations(heap[mpo.network]) :
        mpo' = WhileHead([mpo EXCEPT !.initial_cost = cost, !.current_cost = cost,
                                     !.possible_locations = locs,
                                     !.start_network = heap[mpo.network]])

MpoStart ==
    /\ mpo.pc = "new"
    /\ MpoStartWith(total_cost(heap[mpo.network]))
    /\ probe' = NoProbe
    /\ UNCHANGED <<input, heap, ga, cmp>>

MpoPlace(r) ==
    /\ heap' = [heap EXCEPT ![mpo.network] = r.net]
    /\ mpo' = [mpo EXCEPT !.current_cost = IF r.cost < @ THEN r.cost ELSE @,
                          !.terminal_idx = @ + 1]

\* one terminal of the pass (lines 77-118)
MpoTerminal ==
    /\ mpo.pc = "pass"
    /\ mpo.terminal_idx <= Len(heap[mpo.network].terminals)
    /\ IF ~heap[mpo.network].terminals[mpo.terminal_idx].is_active
       THEN /\ mpo' = [mpo EXCEPT !.terminal_idx = @ + 1]
            /\ heap' = heap
       ELSE MpoPlace(OptimizeTerminal(heap[mpo.network], mpo.terminal_idx,
                                      mpo.possible_locations, mpo.current_cost))
    /\ UNCHANGED <<input, ga, cmp, probe>>

\* a pass end that looks at the pass limit only
PassEndAtLimit(m, pass_improvement) ==
    IF m.verbose /\ m.initial_cost = 0 THEN [m EXCEPT !.pc = "raised"]
    ELSE WhileHead(m)

\* lines 121-134: line 124 raises ZeroDivisionError when verbose and
\* initial_cost is 0; convergence test; back to the loop head
PassEnd(m, pass_improvement) ==
    IF m.verbose /\ m.initial_cost = 0 THEN [m EXCEPT !.pc = "raised"]
    ELSE IF pass_improvement < m.tolerance THEN [m EXCEPT !.pc = "phase2"]
    ELSE WhileHead(m)

MpoPassEnd ==
    /\ mpo.pc = "pass"
    /\ mpo.terminal_idx > Len(heap[mpo.network].terminals)
    /\ mpo' = PassEnd(mpo, FSub(mpo.pass_start_cost, mpo.current_cost))
    /\ UNCHANGED <<input, heap, ga, cmp, probe>>

\* lines 149-161 after a round that deactivated something
RoundCost(m, new_cost) ==
    IF new_cost < m.current_cost
    THEN [m EXCEPT !.current_cost = new_cost,
                   !.pc = IF m.deactivation_iterations < max_deactivation_iterations
                          THEN "phase2" ELSE "finish"]
    ELSE [m EXCEPT !.pc = "finish"]

\* a loop that tries again after a round that deactivated nothing
RoundEndAgain(m, r) ==
    IF r.deactivated THEN RoundCost(m, total_cost(r.net))
    ELSE [m EXCEPT !.pc = IF m.deactivation_iterations < max_deactivation_iterations
                          THEN "phase2" ELSE "finish"]

RoundEnd(m, r) ==
    IF r.deactivated THEN RoundCost(m, total_cost(r.net))
    ELSE [m EXCEPT !.pc = "finish"]

MpoRound(r) ==
    /\ heap' = [heap EXCEPT ![mpo.network] = r.net]
    /\ mpo' = RoundEnd([mpo EXCEPT !.deactivation_iterations = @ + 1], r)

\* one round of Phase 2 (lines 145-161)
MpoDeactivationRound ==
    /\ mpo.pc = "phase2"
    /\ MpoRound(_try_deactivate_terminals(heap[mpo.network], mpo.current_cost))
    /\ UNCHANGED <<input, ga, cmp, probe>>

\* lines 172-175: results = get_improvement(); results['iterations'] = pass_number
MpoReturn(m, r) ==
    IF r.raised THEN [m EXCEPT !.pc = "raised"]
    ELSE [m EXCEPT !.pc = "done",
                   !.results = WithKey(r.value, "iterations", m.pass_number)]

MpoFinishWith(m) == mpo' = MpoReturn(m, get_improvement(m))

\* lines 163-175
MpoFinish ==
    /\ mpo.pc = "finish"
    /\ MpoFinishWith([mpo EXCEPT !.final_cost = mpo.current_cost])
    /\ UNCHANGED <<input, heap, ga, cmp, probe>>

\* a call of get_improvement() between runs
MpoGetImprovement ==
    /\ mpo.pc \in {"new", "done", "raised"}
    /\ probe' = [op |-> "mpo_improvement", result |-> get_improvement(mpo)]
    /\ UNCHANGED <<input, heap, mpo, ga, cmp>>

\* the caller closes terminal k and reassigns before handing the network over
\* (what a run of the genetic optimizer leaves behind)
CloseTerminal(k) ==
    /\ heap # <<>> /\ mpo.pc = "none" /\ ga.pc = "none" /\ cmp.pc = "idle"
    /\ \E j \in DOMAIN heap[1].terminals : j # k /\ heap[1].terminals[j].is_active
    /\ heap[1].terminals[k].is_active
    /\ heap' = [heap EXCEPT ![1] = assign_consumers_to_terminals(SetFlag(heap[1], k, FALSE)).net]
    /\ probe' = [op |-> "edit"]
    /\ UNCHANGED <<input, mpo, ga, cmp>>

NextMPO ==
    \/ Construct
    \/ \E k \in 1 .. NumTerminals : CloseTerminal(k)
    \/ MpoNew
    \/ MpoStart
    \/ MpoTerminal
    \/ MpoPassEnd
    \/ MpoDeactivationRound
    \/ MpoFinish
    \/ MpoGetImprovement

SpecMPO == Init /\ [][NextMPO]_vars

\* optimize() is one sequential call: a step of its loops that can be taken
\* is taken: weak fairness of MpoTerminal, MpoPassEnd, MpoDeactivationRound
\* and MpoFinish. For the three that compute costs, WF is written out with the
\* guard of the action as its enabling condition and the change only that
\* action makes as its step.
TerminalPending == mpo.pc = "pass" /\ mpo.terminal_idx <= Len(heap[mpo.network].terminals)
TerminalTaken == TerminalPending /\ mpo'.terminal_idx = mpo.terminal_idx + 1
RoundPending == mpo.pc = "phase2"
RoundTaken == RoundPending /\ mpo'.deactivation_iterations = mpo.deactivation_iterations + 1
FinishPending == mpo.pc = "finish"
FinishTaken == FinishPending /\ mpo'.pc # "finish"

LoopFairness ==
    /\ []<>(~TerminalPending) \/ []<><<TerminalTaken>>_vars
    /\ WF_vars(MpoPassEnd)
    /\ []<>(~RoundPending) \/ []<><<RoundTaken>>_vars
    /\ []<>(~FinishPending) \/ []<><<FinishTaken>>_vars

SpecMPOFair == SpecMPO /\ LoopFairness

----------------------------------------------------------------------------
(* optimizers/genetic.py *)

tournament_size == 3
progress_every == 10

\* the literal 0.5 of _uniform_crossover
Half == Unit \div 2

\* values random.random() returns: some x with 0 <= x < 1
RandomDraws == { 0, Half, Unit - 1 }

\* the outcomes of `random.random() < rate`
Chance(rate) == { r < rate : r \in RandomDraws }

RateOptions == { F(0), Half }

Chromosomes(n) == [1 .. n -> {0, 1}]

\* sum(chromosome)
SumBits(c) == Cardinality({ i \in DOMAIN c : c[i] = 1 })

\* a chromosome left as it is, all-zero or not
Unrepaired(c) == { c }

\* if sum(c) == 0: c[random.randint(0, chromosome_length - 1)] = 1
Repair(c) ==
    IF SumBits(c) = 0 THEN { [c EXCEPT ![i] = 1] : i \in DOMAIN c } ELSE { c }

\* the populations _initialize_population can return
_initialize_population(population_size, chromosome_length) ==
    [1 .. population_size -> UNION { Repair(c) : c \in Chromosomes(chromosome_length) }]

\* flags that a chromosome can clear and never set
ClearedFlags(net, c) ==
    [net EXCEPT !.terminals =
        [k \in DOMAIN @ |-> [@[k] EXCEPT !.is_active = @ /\ (c[k] = 1)]]]

\* flags set from the chromosome, a closed terminal's fixed cost waived
WaivedFlags(net, c) ==
    [net EXCEPT !.terminals = [k \in DOMAIN @ |->
        IF c[k] = 1 THEN [@[k] EXCEPT !.is_active = TRUE]
        ELSE [@[k] EXCEPT !.is_active = FALSE, !.terminal_cost = 0]]]

WithFlags(net, c) ==
    [net EXCEPT !.terminals = [k \in DOMAIN @ |-> [@[k] EXCEPT !.is_active = (c[k] = 1)]]]

\* the flags set from the chromosome, consumers left as they were
FlagsOnly(net, c) == [raised |-> FALSE, net |-> WithFlags(net, c)]

\* the flags set from the chromosome, closed terminals sent to the center
ApplyAndRecall(net, c) ==
    assign_consumers_to_terminals(
        [net EXCEPT !.terminals = [k \in DOMAIN @ |->
            IF c[k] = 1 THEN [@[k] EXCEPT !.is_active = TRUE]
            ELSE [@[k] EXCEPT !.is_active = FALSE, !.x = net.centers[1].x,
                                                    !.y = net.centers[1].y]]])

\* [raised, net]: the flags set from the chromosome, consumers reassigned
_apply_chromosome(net, c) == assign_consumers_to_terminals(WithFlags(net, c))

\* fitness values count 1/FitUnit, fine enough for MantBits significant bits
FitUnit == 2 ^ (FracBits + MantBits + 5)

\* 1.0 / (1.0 + total_cost)
Fitness(total) == Fl(Unit * FitUnit, FAdd(F(1), total))

FitnessOf(a) ==
    [raised |-> a.raised, net |-> a.net,
     fitness |-> IF a.raised THEN 0 ELSE Fitness(total_cost(a.net))]

\* a fitness that applies every chromosome, the all-zero one included
FitnessUnguarded(net, c) == FitnessOf(_apply_chromosome(net, c))

\* [raised, net, fitness]
_calculate_fitness(net, c) ==
    IF SumBits(c) = 0 THEN [raised |-> FALSE, net |-> net, fitness |-> 0]
    ELSE FitnessOf(_apply_chromosome(net, c))

Evaluated(ev, f) ==
    [raised |-> f.raised, net |-> f.net,
     fitness_values |-> Append(ev.fitness_values, f.fitness)]

\* [self._calculate_fitness(chromo) for chromo in population] from the n-th on
RECURSIVE EvaluateFrom(_, _, _)
EvaluateFrom(ev, population, n) ==
    IF n > Len(population) \/ ev.raised THEN ev
    ELSE EvaluateFrom(Evaluated(ev, _calculate_fitness(ev.net, population[n])),
                      population, n + 1)

Evaluate(net, population) ==
    EvaluateFrom([raised |-> FALSE, net |-> net, fitness_values |-> <<>>], population, 1)

\* max(indices, key=lambda i: key[i]): the first of the maximal ones
ArgMaxFirst(indices, key) ==
    indices[CHOOSE i \in DOMAIN indices :
               /\ \A j \in DOMAIN indices : key[indices[j]] <= key[indices[i]]
               /\ \A j \in 1 .. (i - 1) : key[indices[j]] < key[indices[i]]]

\* range(n), counted from 1
Range(n) == [i \in 1 .. n |-> i]

\* random.sample(range(n), k) for k <= n
Samples(n, k) ==
    { s \in [1 .. k -> 1 .. n] : \A i, j \in 1 .. k : i # j => s[i] # s[j] }

\* the chromosomes a tournament can select
_tournament_selection(population, fitness_values) ==
    { population[ArgMaxFirst(s, fitness_values)] :
        s \in Samples(Len(population), tournament_size) }

Swapped(parent1, parent2, mask) ==
    << [i \in DOMAIN parent1 |-> IF mask[i] THEN parent2[i] ELSE parent1[i]],
       [i \in DOMAIN parent1 |-> IF mask[i] THEN parent1[i] ELSE parent2[i]] >>

RepairPair(pair) == Repair(pair[1]) \X Repair(pair[2])

\* the child pairs _uniform_crossover can return
_uniform_crossover(parent1, parent2) ==
    UNION { RepairPair(Swapped(parent1, parent2, mask)) :
              mask \in [DOMAIN parent1 -> Chance(Half)] }

Flipped(c, flips) == [i \in DOMAIN c |-> IF flips[i] THEN 1 - c[i] ELSE c[i]]

\* the chromosomes _mutate can return
_mutate(c, mutation_rate) ==
    UNION { Repair(Flipped(c, flips)) : flips \in [DOMAIN c -> Chance(mutation_rate)] }

\* lines 251-254
Crossed(pair, crossover_rate) ==
    { p \in _uniform_crossover(pair[1], pair[2]) : TRUE \in Chance(crossover_rate) }
    \cup { p \in { pair } : FALSE \in Chance(crossover_rate) }

\* lines 257-258
MutatedPairs(pair, mutation_rate) ==
    _mutate(pair[1], mutation_rate) \X _mutate(pair[2], mutation_rate)

ChildrenOf(parents, g) ==
    UNION { MutatedPairs(pair, g.mutation_rate) :
              pair \in UNION { Crossed(pp, g.crossover_rate) : pp \in parents \X parents } }

\* lines 247-258: the pairs (child1, child2) one turn of the while loop can make
Children(g) == ChildrenOf(_tournament_selection(g.population, g.fitness_values), g)

\* lines 260-262
Extend(new_population, pair, population_size) ==
    IF Len(new_population) + 1 < population_size
    THEN new_population \o << pair[1], pair[2] >>
    ELSE Append(new_population, pair[1])

\* the while loop of lines 245-262 on partial populations of length n
RECURSIVE BreedFrom(_, _, _, _)
BreedFrom(news, n, pairs, population_size) ==
    IF n >= population_size THEN news
    ELSE BreedFrom({ Extend(np, pair, population_size) : np \in news, pair \in pairs },
                   n + 2, pairs, population_size)

\* a new population that starts empty
NoElite(best_chromosome) == << >>

\* line 242
Elite(best_chromosome) == << best_chromosome >>

BreedStart(new_population, pairs, population_size) ==
    BreedFrom({ new_population }, Len(new_population), pairs, population_size)

\* lines 239-262: the new populations a generation can build
NewPopulations(g) ==
    BreedStart(Elite(g.best_chromosome), Children(g), g.population_size)

\* the object GeneticOptimizer(network, population_size, generations,
\* mutation_rate, crossover_rate) with the locals of its optimize(verbose);
\* net is the network the reference ref names
GeneticOptimizer(ref, net, population_size, generations, mutation_rate, crossover_rate, verbose) ==
    [pc |-> "new", network |-> ref, initial_cost |-> None, final_cost |-> None,
     population_size |-> population_size, generations |-> generations,
     mutation_rate |-> mutation_rate, crossover_rate |-> crossover_rate,
     chromosome_length |-> Len(net.terminals),
     verbose |-> verbose, population |-> <<>>, fitness_values |-> <<>>,
     best_chromosome |-> <<>>, best_fitness |-> None, generation |-> 0,
     results |-> EmptyDict, start_network |-> net]

\* the values of verbose that make a difference: the progress report of
\* lines 279-288 needs a tenth generation
ProgressOptions(generations) == IF generations >= progress_every THEN BOOLEAN ELSE {TRUE}

GaNewWith(generations) ==
    \E population_size \in 0 .. MaxPopulation,
       mutation_rate \in RateOptions, crossover_rate \in RateOptions,
       verbose \in ProgressOptions(generations) :
        ga' = GeneticOptimizer(1, heap[1], population_size, generations, mutation_rate,
                               crossover_rate, verbose)

\* a caller makes a GeneticOptimizer for the network and will call
\* optimize(verbose) on it
GaNew ==
    /\ heap # <<>> /\ ga.pc = "none" /\ mpo.pc = "none" /\ cmp.pc = "idle"
    /\ \E generations \in 0 .. MaxGenerations : GaNewWith(generations)
    /\ probe' = NoProbe
    /\ UNCHANGED <<input, heap, mpo, cmp>>

\* a first best that is the first member of the population
FirstMember(g, fitness_values) ==
    IF g.population = <<>> THEN [g EXCEPT !.pc = "raised"]
    ELSE [g EXCEPT !.pc = "evolve", !.fitness_values = fitness_values,
                   !.best_chromosome = g.population[1],
                   !.best_fitness = fitness_values[1]]

\* lines 232-234; max() of an empty range raises ValueError
FirstBest(g, fitness_values) ==
    IF g.population = <<>> THEN [g EXCEPT !.pc = "raised"]
    ELSE [g EXCEPT !.pc = "evolve", !.fitness_values = fitness_values,
                   !.best_chromosome =
                       g.population[ArgMaxFirst(Range(Len(g.population)), fitness_values)],
                   !.best_fitness =
                       fitness_values[ArgMaxFirst(Range(Len(g.population)), fitness_values)]]

GaStarted(g, ev) ==
    /\ heap' = [heap EXCEPT ![ga.network] = ev.net]
    /\ ga' = IF ev.raised THEN [g EXCEPT !.pc = "raised"]
             ELSE FirstBest(g, ev.fitness_values)

\* optimize(verbose), lines 211-234. start_network remembers the network as
\* optimize() found it.
GaStartWith(cost) ==
    \E population \in _initialize_population(ga.population_size, ga.chromosome_length) :
        GaStarted([ga EXCEPT !.initial_cost = cost,
                             !.population = population,
                             !.start_network = heap[ga.network]],
                  Evaluate(heap[ga.network], population))

GaStart ==
    /\ ga.pc = "new"
    /\ GaStartWith(total_cost(heap[ga.network]))
    /\ probe' = NoProbe
    /\ UNCHANGED <<input, mpo, cmp>>

\* lines 271-276
BestUpdate(g, current_best_idx) ==
    IF g.fitness_values[current_best_idx] > g.best_fitness
    THEN [g EXCEPT !.best_fitness = g.fitness_values[current_best_idx],
                   !.best_chromosome = g.population[current_best_idx]]
    ELSE g

\* lines 279-288: every tenth generation the best chromosome is applied and the
\* improvement printed; the division raises when initial_cost is 0
Progress(g, net) ==
    IF g.verbose /\ g.generation % progress_every = 0
    THEN [g |-> IF g.initial_cost = 0 THEN [g EXCEPT !.pc = "raised"] ELSE g,
          net |-> _apply_chromosome(net, g.best_chromosome).net]
    ELSE [g |-> g, net |-> net]

GaProgressed(r) ==
    /\ ga' = r.g
    /\ heap' = [heap EXCEPT ![ga.network] = r.net]

\* lines 265-288 for the new population and its evaluation
GaEvaluated(new_population, ev) ==
    IF ev.raised
    THEN /\ ga' = [ga EXCEPT !.pc = "raised"]
         /\ heap' = [heap EXCEPT ![ga.network] = ev.net]
    ELSE GaProgressed(
             Progress(BestUpdate([ga EXCEPT !.population = new_population,
                                            !.fitness_values = ev.fitness_values,
                                            !.generation = @ + 1],
                                 ArgMaxFirst(Range(Len(new_population)), ev.fitness_values)),
                      ev.net))

\* one generation (lines 237-288); random.sample raises ValueError when the
\* population is smaller than the tournament
GaGeneration ==
    /\ ga.pc = "evolve"
    /\ ga.generation < ga.generations
    /\ IF 1 < ga.population_size /\ Len(ga.population) < tournament_size
       THEN /\ ga' = [ga EXCEPT !.pc = "raised"]
            /\ heap' = heap
       ELSE \E new_population \in NewPopulations(ga) :
                GaEvaluated(new_population, Evaluate(heap[ga.network], new_population))
    /\ UNCHANGED <<input, mpo, cmp, probe>>

\* a return that adds the number of generations as 'iterations'
GaReturnWithIterations(g, r) ==
    IF r.raised THEN [g EXCEPT !.pc = "raised"]
    ELSE [g EXCEPT !.pc = "done",
                   !.results = WithKey(r.value, "iterations", g.generation)]

\* line 310: return self.get_improvement()
GaReturn(g, r) ==
    IF r.raised THEN [g EXCEPT !.pc = "raised"]
    ELSE [g EXCEPT !.pc = "done", !.results = r.value]

GaFinishWith(g) == ga' = GaReturn(g, get_improvement(g))

GaFinished(a) ==
    /\ heap' = [heap EXCEPT ![ga.network] = a.net]
    /\ IF a.raised THEN ga' = [ga EXCEPT !.pc = "raised"]
       ELSE GaFinishWith([ga EXCEPT !.final_cost = total_cost(a.net)])

\* lines 291-310
GaFinish ==
    /\ ga.pc = "evolve"
    /\ ga.generation >= ga.generations
    /\ GaFinished(_apply_chromosome(heap[ga.network], ga.best_chromosome))
    /\ UNCHANGED <<input, mpo, cmp, probe>>

\* a call of get_improvement() after optimize() returned or raised
GaGetImprovement ==
    /\ ga.pc \in {"done", "raised"}
    /\ probe' = [op |-> "ga_improvement", result |-> get_improvement(ga)]
    /\ UNCHANGED <<input, heap, mpo, ga, cmp>>

----------------------------------------------------------------------------
(* main.py, single-method modes: one optimizer on the loaded network *)

NextRun ==
    \/ Construct
    \/ MpoNew
    \/ MpoStart
    \/ MpoTerminal
    \/ MpoPassEnd
    \/ MpoDeactivationRound
    \/ MpoFinish
    \/ MpoGetImprovement
    \/ GaNew
    \/ GaStart
    \/ GaGeneration
    \/ GaFinish
    \/ GaGetImprovement

SpecRun == Init /\ [][NextRun]_vars

----------------------------------------------------------------------------
(* main.py: run_comparison *)

\* the same object handed on instead of a copy
SameObject(h, ref) == [heap |-> h, ref |-> ref]

\* copy.deepcopy(network): a new object with the value of h[ref]
deepcopy(h, ref) == [heap |-> Append(h, h[ref]), ref |-> Len(h) + 1]

\* sum(1 for t in network.terminals if t.is_active)
active_terminals(net) ==
    Cardinality({ k \in DOMAIN net.terminals : net.terminals[k].is_active })

\* mpo_results.get('iterations', '')
GetIterations(results) ==
    IF "iterations" \in DOMAIN results THEN results.iterations ELSE ""

\* lines 144-151: network_mpo and optimizer_mpo
CmpBeginWith(c) ==
    /\ heap' = c.heap
    /\ mpo' = CoordinateOptimizer(c.ref, c.heap[c.ref], 100, Tenth, TRUE)

\* run_comparison(network, initial_costs) is called with the loaded network
CmpBegin ==
    /\ heap # <<>> /\ cmp.pc = "idle" /\ mpo.pc = "none" /\ ga.pc = "none"
    /\ CmpBeginWith(deepcopy(heap, 1))
    /\ cmp' = [pc |-> "mpo", results |-> EmptyDict]
    /\ probe' = NoProbe
    /\ UNCHANGED <<input, ga>>

\* lines 159-168 (execution_time left out)
MpoEntry ==
    [initial_cost |-> mpo.results.initial_cost,
     final_cost |-> mpo.results.final_cost,
     absolute_improvement |-> mpo.results.absolute_improvement,
     percentage_improvement |-> mpo.results.percentage_improvement,
     iterations |-> GetIterations(mpo.results),
     active_terminals |-> active_terminals(heap[mpo.network]),
     network |-> mpo.network]

\* lines 176-185: network_ga and optimizer_ga. The run is bounded: MaxPopulation
\* and MaxGenerations stand for the literals 50 and 100.
CmpGaWith(c) ==
    /\ heap' = c.heap
    /\ ga' = GeneticOptimizer(c.ref, c.heap[c.ref], MaxPopulation, MaxGenerations,
                              Tenth, Fl(8 * Unit, 10), TRUE)

\* lines 153-185: optimizer_mpo.optimize() has returned
CmpMpoDone ==
    /\ cmp.pc = "mpo" /\ mpo.pc = "done"
    /\ cmp' = [cmp EXCEPT !.pc = "ga", !.results = WithKey(@, "mpo", MpoEntry)]
    /\ CmpGaWith(deepcopy(heap, 1))
    /\ UNCHANGED <<input, mpo, probe>>

\* lines 192-200 (execution_time left out)
GaEntry ==
    [initial_cost |-> ga.results.initial_cost,
     final_cost |-> ga.results.final_cost,
     absolute_improvement |-> ga.results.absolute_improvement,
     percentage_improvement |-> ga.results.percentage_improvement,
     active_terminals |-> active_terminals(heap[ga.network]),
     network |-> ga.network]

\* lines 187-202: optimizer_ga.optimize() has returned; return results
CmpGaDone ==
    /\ cmp.pc = "ga" /\ ga.pc = "done"
    /\ cmp' = [cmp EXCEPT !.pc = "done", !.results = WithKey(@, "ga", GaEntry)]
    /\ UNCHANGED <<input, heap, mpo, ga, probe>>

\* an exception of optimize() leaves run_comparison
CmpRaised ==
    /\ cmp.pc \in {"mpo", "ga"}
    /\ (IF cmp.pc = "mpo" THEN mpo.pc ELSE ga.pc) = "raised"
    /\ cmp' = [cmp EXCEPT !.pc = "raised"]
    /\ UNCHANGED <<input, heap, mpo, ga, probe>>

NextCompare ==
    \/ Construct
    \/ CmpBegin
    \/ MpoStart
    \/ MpoTerminal
    \/ MpoPassEnd
    \/ MpoDeactivationRound
    \/ MpoFinish
    \/ CmpMpoDone
    \/ GaStart
    \/ GaGeneration
    \/ GaFinish
    \/ CmpGaDone
    \/ CmpRaised

SpecCompare == Init /\ [][NextCompare]_vars

----------------------------------------------------------------------------
(* Single calls on a network, whatever its terminals' flags *)

FitnessCall(c, before, r) ==
    /\ heap' = [heap EXCEPT ![1] = r.net]
    /\ probe' = [op |-> "fitness", chromosome |-> c, before |-> before,
                 raised |-> r.raised, fitness |-> r.fitness]

\* GeneticOptimizer(network)._calculate_fitness(chromosome), any bit vector
CalculateFitness ==
    /\ heap # <<>>
    /\ \E c \in Chromosomes(Len(heap[1].terminals)) :
          FitnessCall(c, heap[1], _calculate_fitness(heap[1], c))
    /\ UNCHANGED <<input, mpo, ga, cmp>>

\* find_nearest_terminal(consumer, network.terminals, active_only)
FindNearest ==
    /\ heap # <<>>
    /\ \E i \in DOMAIN heap[1].consumers, active_only \in BOOLEAN :
          probe' = [op |-> "nearest", consumer |-> i, active_only |-> active_only,
                    result |-> find_nearest_terminal(heap[1].consumers[i],
                                                     heap[1].terminals, active_only)]
    /\ UNCHANGED <<input, heap, mpo, ga, cmp>>

NextCalls ==
    \/ Construct
    \/ \E k \in 1 .. NumTerminals, b \in BOOLEAN : SetActive(k, b)
    \/ Reassign
    \/ CalculateFitness
    \/ FindNearest

SpecCalls == Init /\ [][NextCalls]_vars

----------------------------------------------------------------------------
(* Two runs of the genetic optimizer with one seed: the second run (kept in  *)
(* probe, with its network) gets the same parameters and, draw by draw, the  *)
(* same random outcomes as the first.                                        *)

TwinRun(g, net) == [op |-> "twin", ga |-> g, net |-> net]

\* the networks the second run may get: one equal to the first run's, or the
\* same places and costs with the flags and assignments an earlier run left
TwinNetworks(net) ==
    { net } \cup { _apply_chromosome(net, c).net :
                     c \in UNION { Repair(b) : b \in Chromosomes(Len(net.terminals)) } }

TwinNewWith(population_size, generations, mutation_rate, crossover_rate, net2) ==
    /\ ga' = GeneticOptimizer(1, heap[1], population_size, generations, mutation_rate,
                              crossover_rate, TRUE)
    /\ probe' = TwinRun(GeneticOptimizer(2, net2, population_size, generations,
                                         mutation_rate, crossover_rate, TRUE), net2)

\* random.seed(s); GeneticOptimizer(network, ...) twice. Population sizes below
\* the tournament size are left out (they run no selection); with both rates
\* at 0.5 every draw can go either way.
TwinNew ==
    /\ heap # <<>> /\ ga.pc = "none" /\ mpo.pc = "none" /\ cmp.pc = "idle"
    /\ \E population_size \in tournament_size .. MaxPopulation,
          generations \in 0 .. TwinGenerations,
          net2 \in TwinNetworks(heap[1]) :
          TwinNewWith(population_size, generations, Half, Half, net2)
    /\ UNCHANGED <<input, heap, mpo, cmp>>

\* lines 211-234 of the second run
TwinStarted(g, ev) ==
    TwinRun(IF ev.raised THEN [g EXCEPT !.pc = "raised"]
            ELSE FirstBest(g, ev.fitness_values),
            ev.net)

TwinStartWith(population) ==
    /\ GaStarted([ga EXCEPT !.initial_cost = total_cost(heap[ga.network]),
                            !.population = population,
                            !.start_network = heap[ga.network]],
                 Evaluate(heap[ga.network], population))
    /\ probe' = TwinStarted([probe.ga EXCEPT !.initial_cost = total_cost(probe.net),
                                             !.population = population,
                                             !.start_network = probe.net],
                            Evaluate(probe.net, population))

\* both runs start with the population the same draws make
TwinStart ==
    /\ probe.op = "twin" /\ ga.pc = "new"
    /\ \E population \in _initialize_population(ga.population_size, ga.chromosome_length) :
          TwinStartWith(population)
    /\ UNCHANGED <<input, mpo, cmp>>

TwinProgressed(r) == TwinRun(r.g, r.net)

\* lines 265-288 of the second run
TwinEvaluated(g, new_population, ev) ==
    IF ev.raised THEN TwinRun([g EXCEPT !.pc = "raised"], ev.net)
    ELSE TwinProgressed(
             Progress(BestUpdate([g EXCEPT !.population = new_population,
                                           !.fitness_values = ev.fitness_values,
                                           !.generation = @ + 1],
                                 ArgMaxFirst(Range(Len(new_population)), ev.fitness_values)),
                      ev.net))

TwinGenerationWith(new_population) ==
    /\ GaEvaluated(new_population, Evaluate(heap[ga.network], new_population))
    /\ probe' = TwinEvaluated(probe.ga, new_population, Evaluate(probe.net, new_population))

\* one generation of both runs. Selection, crossover and mutation read only
\* the population, its fitness values and the best chromosome, so while these
\* agree the same draws build the same new population in both runs.
TwinGeneration ==
    /\ probe.op = "twin" /\ ga.pc = "evolve" /\ probe.ga.pc = "evolve"
    /\ ga.generation < ga.generations
    /\ \E new_population \in NewPopulations(ga) : TwinGenerationWith(new_population)
    /\ UNCHANGED <<input, mpo, cmp>>

TwinReturn(g, net) == TwinRun(GaReturn(g, get_improvement(g)), net)

\* lines 291-310 of the second run
TwinFinished(g, a) ==
    IF a.raised THEN TwinRun([g EXCEPT !.pc = "raised"], a.net)
    ELSE TwinReturn([g EXCEPT !.final_cost = total_cost(a.net)], a.net)

TwinFinish ==
    /\ probe.op = "twin" /\ ga.pc = "evolve" /\ probe.ga.pc = "evolve"
    /\ ga.generation >= ga.generations
    /\ GaFinished(_apply_chromosome(heap[ga.network], ga.best_chromosome))
    /\ probe' = TwinFinished(probe.ga, _apply_chromosome(probe.net, probe.ga.best_chromosome))
    /\ UNCHANGED <<input, mpo, cmp>>

NextTwin ==
    \/ Construct
    \/ TwinNew
    \/ TwinStart
    \/ TwinGeneration
    \/ TwinFinish

SpecTwin == Init /\ [][NextTwin]_vars

----------------------------------------------------------------------------
(* The scenario of one center at (50, 50), two terminals with fixed cost     *)
(* 8000 each and one consumer with demand 10, handed to the coordinate       *)
(* optimizer. Places are on or around the center, halves included.           *)

ScenarioTerminals ==
    { [x |-> F(p[1]), y |-> F(p[2]), terminal_cost |-> F(8000), processing_cost |-> F(h)] :
        p \in { <<50, 50>>, <<40, 50>>, <<55, 60>> }, h \in { 0, 1 } }

ScenarioConsumers ==
    { [x |-> p[1], y |-> p[2], demand |-> F(10)] :
        p \in { <<F(50), F(50)>>, <<F(40), F(55)>>, <<F(52) + Half, F(50)>> } }

ScenarioInputs ==
    { [centers |-> << Center(0, [x |-> F(50), y |-> F(50)]) >>,
       terminals |-> << Terminal(1, t1), Terminal(2, t2) >>,
       consumers |-> << Consumer(3, c) >>] :
      t1 \in ScenarioTerminals, t2 \in ScenarioTerminals, c \in ScenarioConsumers }

InitScenario ==
    /\ input \in ScenarioInputs
    /\ heap = <<>>
    /\ mpo = NoOptimizer
    /\ ga = NoOptimizer
    /\ cmp = [pc |-> "idle"]
    /\ probe = NoProbe

NextScenario ==
    \/ Construct
    \/ MpoNew
    \/ MpoStart
    \/ MpoTerminal
    \/ MpoPassEnd
    \/ MpoDeactivationRound
    \/ MpoFinish

SpecScenario == InitScenario /\ [][NextScenario]_vars

----------------------------------------------------------------------------
(* Phase 2 of the coordinate optimizer on networks of three terminals, each  *)
(* round remembered terminal by terminal.                                    *)

Phase2Terminals == NumTerminals + 1

\* with a dear terminal whose closing lets a later round close another one
Phase2TerminalOptions ==
    TerminalOptions \cup
        { [x |-> F(5), y |-> F(5), terminal_cost |-> F(8), processing_cost |-> F(5)] }

Phase2Inputs ==
    { [centers |-> <<Center(0, c)>>,
       terminals |-> [i \in 1 .. Phase2Terminals |-> Terminal(i, ts[i])],
       consumers |-> [i \in 1 .. NumConsumers |-> Consumer(Phase2Terminals + i, cs[i])]] :
      c \in CenterOptions,
      ts \in [1 .. Phase2Terminals -> Phase2TerminalOptions],
      cs \in [1 .. NumConsumers -> ConsumerOptions] }

InitPhase2 ==
    /\ input \in Phase2Inputs
    /\ heap = <<>>
    /\ mpo = NoOptimizer
    /\ ga = NoOptimizer
    /\ cmp = [pc |-> "idle"]
    /\ probe = NoProbe

\* the loop of _try_deactivate_terminals from the k-th terminal on, as the
\* list of [net, current_cost, deactivated] before the first terminal and
\* after each one
RECURSIVE TrialsFrom(_, _, _)
TrialsNext(st, k, trials) == TrialsFrom(st, k + 1, Append(trials, st))
TrialsFrom(st, k, trials) ==
    IF k > Len(st.net.terminals) THEN trials
    ELSE TrialsNext(IF ~st.net.terminals[k].is_active THEN st ELSE TryDeactivate(st, k),
                    k, trials)

Trials(st) == TrialsFrom(st, 1, <<st>>)

RoundsSoFar == IF probe.op = "round" THEN probe.rounds ELSE <<>>

\* one round of Phase 2 (lines 145-161), its trials remembered
MpoTrialsRound ==
    /\ mpo.pc = "phase2"
    /\ MpoRound(_try_deactivate_terminals(heap[mpo.network], mpo.current_cost))
    /\ probe' = [op |-> "round",
                 rounds |-> Append(RoundsSoFar,
                                   Trials([net |-> heap[mpo.network],
                                           current_cost |-> mpo.current_cost,
                                           deactivated |-> FALSE]))]
    /\ UNCHANGED <<input, ga, cmp>>

NextPhase2 ==
    \/ Construct
    \/ MpoNew
    \/ MpoStart
    \/ MpoTerminal
    \/ MpoPassEnd
    \/ MpoTrialsRound
    \/ MpoFinish

SpecPhase2 == InitPhase2 /\ [][NextPhase2]_vars

SpecPhase2Fair == SpecPhase2 /\ LoopFairness

----------------------------------------------------------------------------
(* Properties of the network operations (SpecNet) *)

\* the terminals of net with the given id
TerminalsWithId(net, id) == { k \in DOMAIN net.terminals : net.terminals[k].id = id }

\* consumer i of net is assigned to an active terminal and no active terminal
\* is strictly closer to it, by the distance the program computes
NearestActive(net, i) ==
    \E k \in TerminalsWithId(net, net.consumers[i].assigned_terminal) :
        /\ net.terminals[k].is_active
        /\ \A j \in DOMAIN net.terminals :
              net.terminals[j].is_active =>
                 ~(euclidean_distance(net.consumers[i], net.terminals[j])
                     < euclidean_distance(net.consumers[i], net.terminals[k]))

\* net with every assigned_terminal forgotten
Unassigned(net) ==
    [net EXCEPT !.consumers = [i \in DOMAIN net.consumers |->
                                  [net.consumers[i] EXCEPT !.assigned_terminal = None]]]

\* C3: after assign_consumers_to_terminals() completes, every consumer is
\* assigned to an active terminal and no other active terminal is strictly
\* closer; the result is a function of the terminals alone (the same from no
\* assignment at all), so a second pass changes nothing.
C3_NearestActiveAssignment ==
    (probe.op = "assign" /\ ~probe.raised) =>
        /\ \A i \in DOMAIN heap[1].consumers : NearestActive(heap[1], i)
        /\ assign_consumers_to_terminals(heap[1]).net = heap[1]
        /\ assign_consumers_to_terminals(Unassigned(heap[1])).net = heap[1]

\* a completed pass in which the active filter decided an assignment: some
\* inactive terminal is strictly closer to a consumer than its assigned one
C3_Witness ==
    /\ probe.op = "assign" /\ ~probe.raised
    /\ \E i \in DOMAIN heap[1].consumers, j \in DOMAIN heap[1].terminals :
          /\ ~heap[1].terminals[j].is_active
          /\ \A k \in TerminalsWithId(heap[1], heap[1].consumers[i].assigned_terminal) :
                euclidean_distance(heap[1].consumers[i], heap[1].terminals[j])
                  < euclidean_distance(heap[1].consumers[i], heap[1].terminals[k])

\* C7 as stated: total_cost is the four-term sum fixed + processing +
\* center_to_terminal + terminal_to_consumer (evaluated left to right, as the
\* language does), and transport_total = center_to_terminal + terminal_to_consumer.
C7_FourTermSum ==
    probe.op = "costs" =>
        /\ probe.costs.total_cost =
              FAdd(FAdd(FAdd(probe.costs.fixed_costs, probe.costs.processing_costs),
                        probe.costs.transport_center_to_terminal),
                   probe.costs.transport_terminal_to_consumer)
        /\ probe.costs.transport_total =
              FAdd(probe.costs.transport_center_to_terminal,
                   probe.costs.transport_terminal_to_consumer)

\* the exact (unrounded) sum of the four components
ExactSum(c) ==
    c.fixed_costs + c.processing_costs
      + c.transport_center_to_terminal + c.transport_terminal_to_consumer

\* C7 amended: total_cost = (fixed + processing) + transport_total and
\* transport_total = center_to_terminal + terminal_to_consumer, each + a float
\* addition; total_cost is within two units in the last place of the exact
\* four-term sum.
C7_SumDecomposition ==
    probe.op = "costs" =>
        /\ probe.costs.total_cost =
              FAdd(FAdd(probe.costs.fixed_costs, probe.costs.processing_costs),
                   probe.costs.transport_total)
        /\ probe.costs.transport_total =
              FAdd(probe.costs.transport_center_to_terminal,
                   probe.costs.transport_terminal_to_consumer)
        /\ FAbs(probe.costs.total_cost - ExactSum(probe.costs))
              <= 2 * Ulp(ExactSum(probe.costs))

\* a breakdown of an inconsistent network (a consumer assigned to an inactive
\* terminal) with all four components positive
C7_Witness ==
    /\ probe.op = "costs"
    /\ probe.costs.fixed_costs > 0 /\ probe.costs.processing_costs > 0
    /\ probe.costs.transport_center_to_terminal > 0
    /\ probe.costs.transport_terminal_to_consumer > 0
    /\ \E i \in DOMAIN heap[1].consumers :
          \A k \in TerminalsWithId(heap[1], heap[1].consumers[i].assigned_terminal) :
             ~heap[1].terminals[k].is_active

----------------------------------------------------------------------------
(* Properties of the coordinate optimizer (SpecMPO) *)

\* every consumer is assigned to an active terminal none is strictly closer than
Consistent(net) ==
    /\ \E k \in DOMAIN net.terminals : net.terminals[k].is_active
    /\ \A i \in DOMAIN net.consumers :
          \E k \in DOMAIN net.terminals :
              /\ net.terminals[k].is_active
              /\ net.terminals[k].id = net.consumers[i].assigned_terminal
              /\ \A j \in DOMAIN net.terminals :
                    net.terminals[j].is_active =>
                        euclidean_distance(net.consumers[i], net.terminals[k])
                            <= euclidean_distance(net.consumers[i], net.terminals[j])

Places(net) == [k \in DOMAIN net.terminals |-> <<net.terminals[k].x, net.terminals[k].y>>]
Flags(net) == [k \in DOMAIN net.terminals |-> net.terminals[k].is_active]
ActiveCount(net) == Cardinality({ k \in DOMAIN net.terminals : net.terminals[k].is_active })

MpoRunning == mpo.pc \in {"pass", "phase2", "finish"}

\* what one step of a run on a consistent network may do to the tracked cost
C1_Step ==
    (MpoRunning /\ Consistent(mpo.start_network)) =>
        /\ mpo'.current_cost <= mpo.current_cost
        /\ Places(heap'[mpo.network]) # Places(heap[mpo.network])
              => mpo'.current_cost < mpo.current_cost
        /\ Flags(heap'[mpo.network]) # Flags(heap[mpo.network])
              => mpo'.current_cost < mpo.current_cost
        /\ mpo'.pc = "done" => mpo'.final_cost <= mpo'.initial_cost

\* C1: on a consistent network, for every max_iterations and tolerance, a step
\* of CoordinateOptimizer.optimize() never raises the tracked cost, a step that
\* relocates a terminal (Phase 1) or deactivates one (Phase 2) strictly lowers
\* it, so a move that does not lower it leaves places and flags as they were,
\* and optimize() returns with final_cost <= initial_cost.
C1_AcceptedMovesLowerCost == [][C1_Step]_vars

\* a returned run that both relocated and deactivated a terminal
C1_Witness ==
    /\ mpo.pc = "done"
    /\ Consistent(mpo.start_network)
    /\ Places(heap[mpo.network]) # Places(mpo.start_network)
    /\ Flags(heap[mpo.network]) # Flags(mpo.start_network)
    /\ mpo.final_cost < mpo.initial_cost

\* C2: when optimize() of the coordinate optimizer has returned on a network
\* that had a consumer and an active terminal, some terminal is active.
C2_OneTerminalStaysActive ==
    (/\ mpo.pc = "done"
     /\ Len(mpo.start_network.consumers) >= 1
     /\ ActiveCount(mpo.start_network) >= 1)
        => ActiveCount(heap[mpo.network]) >= 1

\* Phase 2 closed a terminal in one round and refused to close the last one
C2_Witness ==
    /\ mpo.pc = "done"
    /\ ActiveCount(mpo.start_network) = 2
    /\ ActiveCount(heap[mpo.network]) = 1
    /\ mpo.deactivation_iterations = 2

----------------------------------------------------------------------------
(* Properties of either optimizer on the loaded network (SpecRun) *)

\* every consumer's assigned_terminal is the id of an active terminal
AssignedToActive(net) ==
    \A i \in DOMAIN net.consumers :
        \E k \in DOMAIN net.terminals :
            /\ net.terminals[k].id = net.consumers[i].assigned_terminal
            /\ net.terminals[k].is_active

\* C4: after construction (until an optimizer starts to run) and when
\* optimize() of either optimizer has returned, every consumer's
\* assigned_terminal is the id of a terminal whose is_active flag is true.
C4_AssignedTerminalsAreActive ==
    /\ (heap # <<>> /\ mpo.pc \in {"none", "new"} /\ ga.pc \in {"none", "new"})
          => AssignedToActive(heap[1])
    /\ mpo.pc = "done" => AssignedToActive(heap[mpo.network])
    /\ ga.pc = "done" => AssignedToActive(heap[ga.network])

\* the genetic optimizer returned with a terminal closed that was open before
C4_Witness ==
    /\ ga.pc = "done"
    /\ ActiveCount(heap[ga.network]) < ActiveCount(ga.start_network)
    /\ AssignedToActive(heap[ga.network])

\* C5: when GeneticOptimizer.optimize() has returned, final_cost <= initial_cost
\* (initial_cost the cost of the network as handed in, final_cost the cost
\* with the best chromosome applied).
C5_GeneticFinalNotAboveInitial ==
    ga.pc = "done" => ga.final_cost <= ga.initial_cost

\* the largest of a non-empty sequence of fitness values
BestOf(fitness_values) ==
    CHOOSE m \in { fitness_values[i] : i \in DOMAIN fitness_values } :
        \A i \in DOMAIN fitness_values : fitness_values[i] <= m

\* what one generation may do
C6_Step ==
    (ga.pc = "evolve" /\ ga'.pc = "evolve" /\ ga'.generation = ga.generation + 1) =>
        /\ ga'.best_fitness >= ga.best_fitness
        /\ \E i \in DOMAIN ga'.population : ga'.population[i] = ga.best_chromosome
        /\ BestOf(ga'.fitness_values) >= BestOf(ga.fitness_values)

\* C6: from one generation to the next the tracked best_fitness does not
\* decrease, the new population contains the best chromosome tracked so far
\* unchanged, and the best fitness in the new population is at least the best
\* fitness in the previous one.
C6_BestFitnessNeverDecreases == [][C6_Step]_vars

\* a generation has found a chromosome better than the elite it carried over
C6_Witness ==
    /\ ga.pc = "evolve"
    /\ ga.generation >= 1
    /\ ga.population[1] # ga.best_chromosome
    /\ ga.fitness_values[1] < ga.best_fitness

ImprovementKeys ==
    { "initial_cost", "final_cost", "absolute_improvement", "percentage_improvement" }

\* v holds the four values computed from the optimizer's costs
IsImprovementOf(v, o) ==
    /\ DOMAIN v = ImprovementKeys
    /\ v.initial_cost = o.initial_cost
    /\ v.final_cost = o.final_cost
    /\ v.absolute_improvement = FSub(o.initial_cost, o.final_cost)
    /\ v.percentage_improvement =
           FDivMul(FSub(o.initial_cost, o.final_cost), o.initial_cost, F(100))

\* the record optimize() returned carries the values of v
Carries(results, v) == \A k \in DOMAIN v : k \in DOMAIN results /\ results[k] = v[k]

\* what a call of get_improvement() on optimizer o has to return
ImprovementAnswer(result, o) ==
    /\ (o.initial_cost = None \/ o.final_cost = None)
          => result = [raised |-> FALSE, value |-> EmptyDict]
    /\ o.pc = "done"
          => /\ ~result.raised
             /\ IsImprovementOf(result.value, o)
             /\ Carries(o.results, result.value)

\* the record optimize() returned holds the four values of the optimizer's costs
ReturnedRecord(o) ==
    /\ ImprovementKeys \subseteq DOMAIN o.results
    /\ IsImprovementOf([k \in ImprovementKeys |-> o.results[k]], o)

\* C9: get_improvement() returns an empty dictionary while initial_cost or
\* final_cost is unset; when optimize() has returned it returns initial_cost,
\* final_cost, absolute_improvement = initial_cost - final_cost and
\* percentage_improvement = absolute_improvement / initial_cost * 100, and the
\* record optimize() returned carries the same four values.
C9_ImprovementRecord ==
    /\ probe.op = "mpo_improvement" => ImprovementAnswer(probe.result, mpo)
    /\ probe.op = "ga_improvement" => ImprovementAnswer(probe.result, ga)
    /\ mpo.pc = "done" => ReturnedRecord(mpo)
    /\ ga.pc = "done" => ReturnedRecord(ga)

\* get_improvement() after a run of the coordinate optimizer that lowered the cost
C9_Witness ==
    /\ probe.op = "mpo_improvement"
    /\ mpo.pc = "done"
    /\ probe.result.value.absolute_improvement > 0
    /\ probe.result.value.percentage_improvement > 0

----------------------------------------------------------------------------
(* Properties of run_comparison (SpecCompare) *)

\* what one step of run_comparison may do to the networks
C8_Step ==
    cmp.pc # "idle" =>
        /\ heap'[1] = heap[1]
        /\ cmp.pc = "ga" => heap'[mpo.network] = heap[mpo.network]
        /\ cmp.pc = "mpo" => mpo.network # 1
        /\ cmp.pc = "ga" => ga.network \notin {1, mpo.network}
        /\ ga'.pc = "evolve" => ga'.start_network = heap[1]
        /\ cmp'.pc = "done"
              => cmp'.results.mpo.initial_cost = cmp'.results.ga.initial_cost

\* C8: during run_comparison no step changes the input network, the coordinate
\* optimizer works on an object of its own, the genetic optimizer on another
\* one that starts equal to the input, no step of the genetic run changes the
\* coordinate optimizer's network, and both report the same initial_cost.
C8_ComparisonCopiesAreIndependent == [][C8_Step]_vars

\* run_comparison returned and both optimizers changed their own copy
C8_Witness ==
    /\ cmp.pc = "done"
    /\ heap[mpo.network] # heap[1]
    /\ heap[ga.network] # heap[1]
    /\ heap[mpo.network] # heap[ga.network]

----------------------------------------------------------------------------
(* Properties of single calls (SpecCalls) *)

\* net with the flags and assignments forgotten: what a chromosome never touches
WithoutFlags(net) ==
    [Unassigned(net) EXCEPT !.terminals =
        [k \in DOMAIN @ |-> [@[k] EXCEPT !.is_active = TRUE]]]

\* C11: _calculate_fitness returns exactly 0 for the all-zero chromosome and
\* leaves terminal flags and consumer assignments as they were; for a
\* chromosome with a bit set it makes terminal i active iff bit i is 1,
\* reassigns the consumers to nearest active terminals and returns
\* 1 / (1 + total_cost) of the network in that state.
C11_FitnessOfChromosome ==
    probe.op = "fitness" =>
        /\ ~probe.raised
        /\ IF \A k \in DOMAIN probe.chromosome : probe.chromosome[k] = 0
           THEN probe.fitness = 0 /\ heap[1] = probe.before
           ELSE /\ \A k \in DOMAIN heap[1].terminals :
                      heap[1].terminals[k].is_active <=> probe.chromosome[k] = 1
                /\ \A i \in DOMAIN heap[1].consumers : NearestActive(heap[1], i)
                /\ WithoutFlags(heap[1]) = WithoutFlags(probe.before)
                /\ probe.fitness = Fl(Unit * FitUnit, FAdd(F(1), total_cost(heap[1])))

\* a chromosome that closes a terminal that was active and serving a consumer,
\* with a positive total cost behind the fitness
C11_Witness ==
    /\ probe.op = "fitness"
    /\ \E k \in DOMAIN probe.chromosome :
          /\ probe.chromosome[k] = 0
          /\ probe.before.terminals[k].is_active
          /\ \E i \in DOMAIN probe.before.consumers :
                probe.before.consumers[i].assigned_terminal = probe.before.terminals[k].id
    /\ \E k \in DOMAIN probe.chromosome : probe.chromosome[k] = 1
    /\ heap[1].consumers # probe.before.consumers
    /\ 0 < probe.fitness /\ probe.fitness < FitUnit

\* the terminals find_nearest_terminal may choose from, by position
Eligible(net, active_only) ==
    { k \in DOMAIN net.terminals : active_only => net.terminals[k].is_active }

\* distance of the probed consumer to the k-th terminal
ProbedDistance(k) == euclidean_distance(heap[1].consumers[probe.consumer], heap[1].terminals[k])

\* position of the returned terminal in the collection
ReturnedPosition == CHOOSE k \in DOMAIN heap[1].terminals : heap[1].terminals[k] = probe.result.nearest

\* C15: find_nearest_terminal returns a terminal of the eligible set (the
\* active ones under active_only, all of them otherwise) at minimum distance
\* from the consumer, together with that distance; among several at the
\* minimum it returns the first in collection order.
C15_NearestIsFirstMinimum ==
    (probe.op = "nearest" /\ ~probe.result.raised) =>
        /\ \E k \in Eligible(heap[1], probe.active_only) : heap[1].terminals[k] = probe.result.nearest
        /\ probe.result.min_distance = ProbedDistance(ReturnedPosition)
        /\ \A k \in Eligible(heap[1], probe.active_only) :
              /\ ProbedDistance(k) >= probe.result.min_distance
              /\ ProbedDistance(k) = probe.result.min_distance => k >= ReturnedPosition

\* two eligible terminals at the same distance, the first returned
C15_Witness ==
    /\ probe.op = "nearest"
    /\ ~probe.result.raised
    /\ Eligible(heap[1], probe.active_only) = { 1, 2 }
    /\ ProbedDistance(1) = ProbedDistance(2)
    /\ ProbedDistance(1) > 0
    /\ probe.result.nearest = heap[1].terminals[1]

C16_Calls ==
    /\ probe.op = "nearest" =>
          (probe.result.raised <=> Eligible(heap[1], probe.active_only) = {})
    /\ probe.op = "assign" =>
          (probe.raised <=> ActiveCount(heap[1]) = 0)

C16_Step ==
    (heap # <<>> /\ ActiveCount(heap[1]) = 0 /\ probe'.op = "assign" /\ probe' # probe) =>
        /\ probe'.raised
        /\ heap' = heap

\* C16: find_nearest_terminal raises ValueError exactly when the eligible set
\* is empty, and assign_consumers_to_terminals() on a network without an
\* active terminal raises and leaves every consumer's assigned_terminal as
\* it was.
C16_RaisesOnEmptyOnly == []C16_Calls /\ [][C16_Step]_vars

\* a raising pass over consumers that had an assignment, and a raising search
C16_Witness ==
    /\ probe.op = "assign"
    /\ probe.raised
    /\ ActiveCount(heap[1]) = 0
    /\ \A i \in DOMAIN heap[1].consumers : heap[1].consumers[i].assigned_terminal # None

----------------------------------------------------------------------------
(* Properties of the optimizers' runs, continued (SpecRun) *)

\* the defaults of CoordinateOptimizer (max_iterations=100, tolerance=0.01)
\* and of optimize (verbose=True), max_iterations at its bound
MpoDefaults(m) ==
    m.max_iterations = MaxIterations /\ m.tolerance = Fl(Unit, 100) /\ m.verbose

\* the defaults of GeneticOptimizer that can matter for an exception
\* (population_size=50, generations=100) at their bounds, and verbose=True
GaDefaults(g) ==
    g.population_size = MaxPopulation /\ g.generations = MaxGenerations /\ g.verbose

\* C12 as stated: on a network that satisfies the data model's invariants, with
\* the default parameters, optimize() of neither optimizer raises.
C12_NoExceptionWithDefaults ==
    /\ mpo.pc = "raised" => ~MpoDefaults(mpo)
    /\ ga.pc = "raised" => ~GaDefaults(ga)

\* a network without what an optimizer may change: terminals' coordinates
\* and flags, consumers' assigned_terminal
Frozen(net) ==
    [net EXCEPT !.terminals = [k \in DOMAIN @ |-> [@[k] EXCEPT !.x = 0, !.y = 0,
                                                                !.is_active = TRUE]],
                !.consumers = [i \in DOMAIN @ |-> [@[i] EXCEPT !.assigned_terminal = None]]]

\* C17: from its start on, through every step and after it returned or
\* raised, optimize() of either optimizer leaves everything of the network but
\* terminals' coordinates and flags and consumers' assigned_terminal as it
\* found it: costs, consumers' coordinates and demand, the center, ids, and
\* the order and membership of the collections.
C17_OnlyPlacesFlagsAssignments ==
    /\ mpo.pc \notin {"none", "new"} => Frozen(heap[mpo.network]) = Frozen(mpo.start_network)
    /\ ga.pc \notin {"none", "new"} => Frozen(heap[ga.network]) = Frozen(ga.start_network)
    /\ heap # <<>> => Frozen(heap[1]) = Frozen(input)

\* the coordinate optimizer returned with a terminal moved, a terminal closed
\* and a consumer reassigned
C17_Witness ==
    /\ mpo.pc = "done"
    /\ Places(heap[mpo.network]) # Places(mpo.start_network)
    /\ Flags(heap[mpo.network]) # Flags(mpo.start_network)
    /\ heap[mpo.network].consumers # mpo.start_network.consumers
    /\ Frozen(heap[mpo.network]) = Frozen(mpo.start_network)

\* C18: from its start on, through every generation and after it returned or
\* raised, GeneticOptimizer.optimize() leaves every terminal's coordinates as
\* it found them.
C18_GeneticKeepsPlaces ==
    ga.pc \notin {"none", "new"} => Places(heap[ga.network]) = Places(ga.start_network)

\* the genetic optimizer returned with a terminal closed, every terminal
\* where it was
C18_Witness ==
    /\ ga.pc = "done"
    /\ ga.generation > 0
    /\ Flags(heap[ga.network]) # Flags(ga.start_network)
    /\ Places(heap[ga.network]) = Places(ga.start_network)

----------------------------------------------------------------------------
(* Properties of two runs with one seed (SpecTwin) *)

----------------------------------------------------------------------------
(* Properties of the scenario (SpecScenario) *)

\* C14: on a network with one center at (50, 50), two active terminals with
\* fixed cost 8000 each and one consumer with demand 10, optimize() of the
\* coordinate optimizer does not raise, and when it has returned final_cost
\* is strictly lower than initial_cost and a terminal was relocated or one of
\* the two was deactivated.
C14_ScenarioCostDrops ==
    /\ mpo.pc # "raised"
    /\ mpo.pc = "done" =>
          /\ mpo.final_cost < mpo.initial_cost
          /\ \/ Places(heap[mpo.network]) # Places(mpo.start_network)
             \/ ActiveCount(heap[mpo.network]) < ActiveCount(mpo.start_network)

\* a run that relocated a terminal in Phase 1 and deactivated one in Phase 2
C14_Witness ==
    /\ mpo.pc = "done"
    /\ mpo.pass_number > 0
    /\ Places(heap[mpo.network]) # Places(mpo.start_network)
    /\ ActiveCount(heap[mpo.network]) = 1
    /\ mpo.final_cost < mpo.initial_cost

----------------------------------------------------------------------------
(* Properties of Phase 2 (SpecPhase2) *)

\* the remembered rounds and, in a round, the terminals that were tried
Rounds == IF probe.op = "round" THEN probe.rounds ELSE <<>>
TriedIn(T) == { k \in 1 .. Len(T) - 1 : T[k].net.terminals[k].is_active }
KeptIn(T) == { k \in TriedIn(T) : ~T[k + 1].net.terminals[k].is_active }

\* the network of the trial on terminal k: the terminal closed, consumers
\* reassigned where another terminal is active
Infeasible(T, k) == ActiveCount(T[k].net) = 1
TrialNetwork(T, k) == assign_consumers_to_terminals(SetFlag(T[k].net, k, FALSE)).net
NotLower(T, k) == ~Infeasible(T, k) /\ total_cost(TrialNetwork(T, k)) >= T[k].current_cost

\* the cost a trial on terminal k is compared with: the cost of the latest
\* deactivation kept in the round, else the cost the round began with
KeptBefore(T, k) == { j \in KeptIn(T) : j < k }
Baseline(T, k) ==
    IF KeptBefore(T, k) = {} THEN T[1].current_cost
    ELSE total_cost(T[MaxOf(KeptBefore(T, k)) + 1].net)

\* C19: a tentative deactivation in Phase 2 that is infeasible (no other
\* terminal active) or whose cost is not strictly lower is fully reverted: the
\* terminal is active again and every consumer's assignment, with the whole
\* network, is as before the trial; the ValueError is caught in the loop, which
\* goes on to the remaining terminals.
C19_FailedTrialReverted ==
    /\ \A r \in DOMAIN Rounds : Len(Rounds[r]) = Len(heap[mpo.network].terminals) + 1
    /\ Len(Rounds) > 0 => Rounds[Len(Rounds)][Len(heap[mpo.network].terminals) + 1].net = heap[mpo.network]
    /\ \A r \in DOMAIN Rounds : \A k \in TriedIn(Rounds[r]) :
          (Infeasible(Rounds[r], k) \/ NotLower(Rounds[r], k)) =>
              /\ Rounds[r][k + 1].net.terminals[k].is_active
              /\ Rounds[r][k + 1].net.consumers = Rounds[r][k].net.consumers
              /\ Rounds[r][k + 1] = Rounds[r][k]

\* a trial that moved a consumer and was reverted for its cost, and another
\* that was reverted as the last active terminal
C19_Witness ==
    /\ \E r \in DOMAIN Rounds : \E k \in TriedIn(Rounds[r]) :
          /\ NotLower(Rounds[r], k)
          /\ TrialNetwork(Rounds[r], k).consumers # Rounds[r][k].net.consumers
          /\ Rounds[r][k + 1].net = Rounds[r][k].net
    /\ \E r \in DOMAIN Rounds : \E k \in TriedIn(Rounds[r]) :
          /\ Infeasible(Rounds[r], k)
          /\ Rounds[r][k + 1].net = Rounds[r][k].net

\* C20: in a round of Phase 2 a terminal stays deactivated only if the cost
\* recomputed with it closed is strictly lower than the baseline at that
\* moment, and the cost of a kept deactivation is the baseline for the
\* terminals tried after it in the same round.
C20_KeptOnlyBelowBaseline ==
    \A r \in DOMAIN Rounds : \A k \in TriedIn(Rounds[r]) :
        /\ Rounds[r][k].current_cost = Baseline(Rounds[r], k)
        /\ k \in KeptIn(Rounds[r]) =>
              /\ Rounds[r][k + 1].net = TrialNetwork(Rounds[r], k)
              /\ total_cost(Rounds[r][k + 1].net) < Baseline(Rounds[r], k)
              /\ Rounds[r][k + 1].deactivated

\* a round that kept one deactivation and then reverted a trial whose cost
\* was below the cost the round began with, but not below the kept one's
C20_Witness ==
    \E r \in DOMAIN Rounds : \E k \in TriedIn(Rounds[r]) :
        /\ KeptBefore(Rounds[r], k) # {}
        /\ NotLower(Rounds[r], k)
        /\ total_cost(TrialNetwork(Rounds[r], k)) < Rounds[r][1].current_cost
        /\ k \notin KeptIn(Rounds[r])

----------------------------------------------------------------------------
(* Properties of Phase 1 and of the loops' ends (SpecMPO, SpecPhase2) *)

\* positions in the list of locations that are tried for a terminal at orig
Candidates(locs, orig) == { n \in DOMAIN locs : locs[n] # orig }

\* the network of a trial, and its cost
TrialAt(net, k, loc) == assign_consumers_to_terminals(MoveTo(net, k, loc)).net
TrialCostAt(net, k, loc) == total_cost(TrialAt(net, k, loc))

LowestTrial(net, k, locs) ==
    MinOf({ TrialCostAt(net, k, locs[n]) : n \in Candidates(locs, Place(net, k)) })

FirstLowest(net, k, locs) ==
    MinOf({ n \in Candidates(locs, Place(net, k)) :
              TrialCostAt(net, k, locs[n]) = LowestTrial(net, k, locs) })

Improves(net, k, locs, current_cost) ==
    /\ Candidates(locs, Place(net, k)) # {}
    /\ LowestTrial(net, k, locs) < current_cost

\* a step of the pass over the active terminal terminal_idx
C21_Step ==
    (/\ mpo.pc = "pass" /\ mpo'.pc = "pass"
     /\ mpo'.terminal_idx = mpo.terminal_idx + 1
     /\ heap[mpo.network].terminals[mpo.terminal_idx].is_active) =>
        IF Improves(heap[mpo.network], mpo.terminal_idx, mpo.possible_locations,
                    mpo.current_cost)
        THEN /\ heap'[mpo.network] =
                  TrialAt(heap[mpo.network], mpo.terminal_idx,
                          mpo.possible_locations[FirstLowest(heap[mpo.network],
                              mpo.terminal_idx, mpo.possible_locations)])
             /\ mpo'.current_cost = LowestTrial(heap[mpo.network], mpo.terminal_idx,
                                                mpo.possible_locations)
        ELSE /\ Place(heap'[mpo.network], mpo.terminal_idx)
                  = Place(heap[mpo.network], mpo.terminal_idx)
             /\ heap'[mpo.network] = assign_consumers_to_terminals(heap[mpo.network]).net
             /\ mpo'.current_cost = mpo.current_cost

\* C21: in a Phase 1 pass each active terminal, taken in collection order,
\* ends at the candidate location of lowest trial cost when that cost is
\* strictly lower than the current cost before its trials, the first such
\* candidate tried when several cost the same; otherwise it ends at its
\* original coordinates, consumers reassigned for them, the current cost kept.
C21_BestCandidateOrStay == [][C21_Step]_vars

\* the first terminal of the first pass went to the first of two candidates
\* of the same lowest cost
C21_Witness ==
    /\ mpo.pc = "pass" /\ mpo.pass_number = 1 /\ mpo.terminal_idx = 2
    /\ mpo.start_network.terminals[1].is_active
    /\ Improves(mpo.start_network, 1, mpo.possible_locations, mpo.initial_cost)
    /\ \E n \in Candidates(mpo.possible_locations, Place(mpo.start_network, 1)) :
          /\ n > FirstLowest(mpo.start_network, 1, mpo.possible_locations)
          /\ TrialCostAt(mpo.start_network, 1, mpo.possible_locations[n])
                = LowestTrial(mpo.start_network, 1, mpo.possible_locations)
    /\ Place(heap[mpo.network], 1)
          = mpo.possible_locations[FirstLowest(mpo.start_network, 1, mpo.possible_locations)]

\* a step that begins a pass of Phase 1
EntersPass ==
    /\ mpo'.pc = "pass" /\ mpo'.terminal_idx = 1
    /\ mpo.pc = "new" \/ (mpo.pc = "pass" /\ mpo.terminal_idx > 1)

\* a step that ends a pass
EndsPass ==
    /\ mpo.pc = "pass" /\ mpo.terminal_idx > Len(heap[mpo.network].terminals)
    /\ mpo' # mpo

C22_Passes ==
    /\ mpo.pc # "none" => mpo.pass_number <= mpo.max_iterations
    /\ mpo.pc = "done" =>
          /\ mpo.results.iterations = mpo.pass_number
          /\ mpo.max_iterations = 0 => mpo.results.iterations = 0

C22_Step ==
    /\ (mpo.pc \notin {"none"} /\ mpo'.pc # "none") =>
          mpo'.pass_number = IF EntersPass THEN mpo.pass_number + 1 ELSE mpo.pass_number
    /\ EntersPass => mpo.pass_number < mpo.max_iterations
    /\ EndsPass =>
          IF FSub(mpo.pass_start_cost, mpo.current_cost) < mpo.tolerance
          THEN mpo'.pc \in {"phase2", "raised"}
          ELSE mpo'.pc = "raised" \/ (EntersPass <=> mpo.pass_number < mpo.max_iterations)

\* C22: Phase 1 of the coordinate optimizer ends: a pass that has begun is
\* followed by Phase 2 (or by the exception of the progress line); passes are
\* counted one by one and never exceed max_iterations; the pass whose
\* improvement (cost before the pass minus cost after it) is below tolerance is
\* the last; and the returned 'iterations' is the number of passes begun, 0
\* when max_iterations is 0.
C22_Phase1Ends ==
    /\ []C22_Passes
    /\ [][C22_Step]_vars
    /\ (mpo.pc = "pass") ~> (mpo.pc \in {"phase2", "raised"})

\* a run that stopped on tolerance before the pass limit
C22_Witness ==
    /\ mpo.pc = "done"
    /\ mpo.pass_number >= 1
    /\ mpo.pass_number < mpo.max_iterations
    /\ mpo.results.iterations = mpo.pass_number

\* a step that is a round of Phase 2
IsRound == mpo.pc = "phase2" /\ mpo'.deactivation_iterations = mpo.deactivation_iterations + 1

C23_Rounds ==
    mpo.pc \notin {"none", "new"} =>
        /\ mpo.deactivation_iterations <= max_deactivation_iterations
        /\ ActiveCount(mpo.start_network) >= 1
              => mpo.deactivation_iterations <= ActiveCount(mpo.start_network)

C23_Step ==
    /\ IsRound =>
          /\ Flags(heap'[mpo.network]) = Flags(heap[mpo.network]) => mpo'.pc = "finish"
          /\ mpo'.pc # "finish" =>
                /\ mpo'.pc = "phase2"
                /\ ActiveCount(heap'[mpo.network]) < ActiveCount(heap[mpo.network])
    /\ (mpo.pc \in {"phase2", "finish"} /\ ~IsRound) =>
          mpo'.deactivation_iterations = mpo.deactivation_iterations

\* C23: Phase 2 of the coordinate optimizer ends: a round is followed by the
\* end of Phase 2 after at most max_deactivation_iterations (10) rounds; the
\* first round that deactivates no terminal is the last; every round after
\* which Phase 2 goes on has deactivated a terminal, so that on a network with
\* an active terminal there are at most as many rounds as terminals active at
\* the start.
C23_Phase2Ends ==
    /\ []C23_Rounds
    /\ [][C23_Step]_vars
    /\ (mpo.pc = "phase2") ~> (mpo.pc = "finish")

\* two rounds that each deactivated a terminal, and the round that ended Phase 2
C23_Witness ==
    /\ mpo.pc = "done"
    /\ mpo.deactivation_iterations = 3
    /\ ActiveCount(mpo.start_network) = 3
    /\ ActiveCount(heap[mpo.network]) = 1

----------------------------------------------------------------------------
(* Properties of the genetic optimizer's populations (SpecRun) *)

\* C24: with at least one terminal, every chromosome of every population of
\* GeneticOptimizer.optimize() (the initial one and each generation's, elite
\* and children) and the tracked best chromosome have a bit set to 1; every
\* fitness value is above 0; and optimize() raises only for an empty
\* population, a population smaller than the tournament, or an initial cost
\* of 0, never because no terminal is eligible.
C24_EveryChromosomeOpensATerminal ==
    (ga.pc \in {"evolve", "done", "raised"} /\ ga.chromosome_length >= 1) =>
        /\ \A i \in DOMAIN ga.population : SumBits(ga.population[i]) >= 1
        /\ \A i \in DOMAIN ga.fitness_values : ga.fitness_values[i] > 0
        /\ ga.pc \in {"evolve", "done"} => SumBits(ga.best_chromosome) >= 1
        /\ ga.pc = "raised" =>
              \/ ga.population_size = 0
              \/ ga.population_size < tournament_size /\ ga.population_size > 1
              \/ ga.initial_cost = 0
        /\ ActiveCount(heap[ga.network]) >= 1

\* a generation with crossover and mutation left a chromosome with one bit
C24_Witness ==
    /\ ga.pc = "evolve"
    /\ ga.generation >= 1
    /\ ga.mutation_rate > 0 /\ ga.crossover_rate > 0
    /\ \E i \in DOMAIN ga.population : i > 1 /\ SumBits(ga.population[i]) = 1
    /\ \A i \in DOMAIN ga.fitness_values : ga.fitness_values[i] > 0

\* a step of optimize() inside a generation that was due
GenerationDue == ga.pc = "evolve" /\ ga.generation < ga.generations /\ ga' # ga

\* the generation built a new population of population_size individuals: the
\* elite, then children of tournament-selected parents
NewPopulationBuilt ==
    /\ ga'.generation = ga.generation + 1
    /\ Len(ga'.population) = ga.population_size
    /\ ga'.population[1] = ga.best_chromosome
    /\ \A i \in 2 .. Len(ga'.population) :
          \E pair \in Children(ga) : ga'.population[i] \in { pair[1], pair[2] }

C25_Step == (GenerationDue /\ ga.population_size >= 1) => NewPopulationBuilt

\* C25: for every population_size >= 1, every generation of
\* GeneticOptimizer.optimize() builds a new population of exactly
\* population_size individuals: the elite first, then children of parents
\* selected by tournaments of 3 drawn without replacement from the current
\* population, the second child of the last pair dropped when it would
\* overflow.
C25_PopulationKeepsItsSize == [][C25_Step]_vars

C25_StepOfLargeEnough ==
    (GenerationDue /\ (ga.population_size = 1 \/ ga.population_size >= tournament_size)
       /\ ga.initial_cost # 0)
        => NewPopulationBuilt

\* the same for population_size 1 and for population_size >= tournament_size,
\* where it holds
C25_PopulationKeepsItsSizeWhenLargeEnough == [][C25_StepOfLargeEnough]_vars

----------------------------------------------------------------------------
(* The cost components by their definitions (SpecNet) *)

\* the sum of f[k] over the keys k of f up to n, in increasing order
RECURSIVE SumOver(_, _)
SumOver(f, n) ==
    IF n = 0 THEN 0
    ELSE IF n \in DOMAIN f THEN FAdd(SumOver(f, n - 1), f[n])
    ELSE SumOver(f, n - 1)

ActiveTerminals(net) == { k \in DOMAIN net.terminals : net.terminals[k].is_active }

\* the consumers assigned to terminal k
AssignedTo(net, k) ==
    { i \in DOMAIN net.consumers : net.consumers[i].assigned_terminal = net.terminals[k].id }

AssignedDemand(net, k) ==
    SumOver([i \in AssignedTo(net, k) |-> net.consumers[i].demand], Len(net.consumers))

FixedCostsDefinition(net) ==
    SumOver([k \in ActiveTerminals(net) |-> net.terminals[k].terminal_cost],
            Len(net.terminals))

HandlingCostsDefinition(net) ==
    SumOver([k \in ActiveTerminals(net) |->
                FMul(net.terminals[k].processing_cost, AssignedDemand(net, k))],
            Len(net.terminals))

CenterToTerminalDefinition(net) ==
    SumOver([k \in { j \in ActiveTerminals(net) : AssignedTo(net, j) # {} } |->
                FMul(FMul(FMul(euclidean_distance(get_center(net), net.terminals[k]),
                               F(transport_cost_per_unit)),
                          AssignedDemand(net, k)),
                     Tenth)],
            Len(net.terminals))

\* the place of the leg from terminal k to consumer i in the order of summation
LegRank(net, k, i) == (k - 1) * Len(net.consumers) + i

TerminalOfRank(net, r) == ((r - 1) \div Len(net.consumers)) + 1

ConsumerOfRank(net, r) == ((r - 1) % Len(net.consumers)) + 1

TerminalToConsumerDefinition(net) ==
    SumOver([r \in { LegRank(net, k, i) : k \in ActiveTerminals(net),
                                          i \in DOMAIN net.consumers } \cap
                   { r \in 1 .. Len(net.terminals) * Len(net.consumers) :
                        ConsumerOfRank(net, r) \in AssignedTo(net, TerminalOfRank(net, r)) }
             |-> FMul(FMul(euclidean_distance(net.terminals[TerminalOfRank(net, r)],
                                              net.consumers[ConsumerOfRank(net, r)]),
                           F(transport_cost_per_unit)),
                      net.consumers[ConsumerOfRank(net, r)].demand)],
            Len(net.terminals) * Len(net.consumers))

\* the active terminals whose terminal_consumers list holds consumer i
CountedAt(net, i) ==
    { k \in ActiveTerminals(net) :
         \E j \in DOMAIN terminal_consumers(net.terminals[k], net.consumers) :
            terminal_consumers(net.terminals[k], net.consumers)[j] = net.consumers[i] }

\* C26: on a consistent network the four components of the breakdown equal
\* their definitions: fixed costs sum terminal_cost over the active terminals;
\* handling costs sum processing_cost * assigned demand over the active
\* terminals; center-to-terminal transport sums distance(center, terminal) *
\* unit cost * assigned demand * 0.1 over the active terminals with a consumer;
\* terminal-to-consumer transport sums distance * unit cost * demand over each
\* consumer and its assigned terminal.  Every consumer is counted at exactly
\* one terminal, and the breakdown is that of the active terminals alone.
C26_ComponentsByDefinition ==
    (probe.op = "costs" /\ Consistent(heap[1])) =>
        /\ probe.costs.fixed_costs = FixedCostsDefinition(heap[1])
        /\ probe.costs.processing_costs = HandlingCostsDefinition(heap[1])
        /\ probe.costs.transport_center_to_terminal = CenterToTerminalDefinition(heap[1])
        /\ probe.costs.transport_terminal_to_consumer
              = TerminalToConsumerDefinition(heap[1])
        /\ \A i \in DOMAIN heap[1].consumers : Cardinality(CountedAt(heap[1], i)) = 1
        /\ probe.costs = calculate_total_cost(get_center(heap[1]),
                                              get_active_terminals(heap[1]),
                                              heap[1].consumers)

\* the breakdown of a consistent network with an inactive terminal that has
\* costs of its own and an active one serving every consumer away from it
C26_Witness ==
    /\ probe.op = "costs" /\ Consistent(heap[1])
    /\ probe.costs = calculate_costs(heap[1])
    /\ \E k \in DOMAIN heap[1].terminals :
          /\ ~heap[1].terminals[k].is_active
          /\ heap[1].terminals[k].terminal_cost > 0
          /\ heap[1].terminals[k].processing_cost > 0
    /\ \E k \in ActiveTerminals(heap[1]) : Cardinality(AssignedTo(heap[1], k)) = 2
    /\ probe.costs.transport_center_to_terminal > 0
    /\ probe.costs.transport_terminal_to_consumer > 0

----------------------------------------------------------------------------
(* The cost the coordinate optimizer tracks (SpecMPO) *)

\* C27: the cost tracked by CoordinateOptimizer.optimize() is the cost of the
\* network: after each terminal of a Phase 1 pass, after each Phase 2 round
\* and when optimize() returns, current_cost (and then final_cost and the
\* reported final_cost) equals the total cost recomputed on the network as it
\* is.
C27_TrackedCostIsNetworkCost ==
    /\ MpoRunning => mpo.current_cost = total_cost(heap[mpo.network])
    /\ mpo.pc = "done" =>
          /\ mpo.final_cost = total_cost(heap[mpo.network])
          /\ mpo.results["final_cost"] = total_cost(heap[mpo.network])

\* optimize() returned after a run that moved a terminal and closed one
C27_Witness ==
    /\ mpo.pc = "done"
    /\ Places(heap[mpo.network]) # Places(mpo.start_network)
    /\ Flags(heap[mpo.network]) # Flags(mpo.start_network)
    /\ mpo.final_cost < mpo.initial_cost
    /\ mpo.final_cost = total_cost(heap[mpo.network])

----------------------------------------------------------------------------
(* Rounds of Phase 2 that deactivate a terminal (SpecMPO) *)

\* what the round about to run returns
RoundReport == _try_deactivate_terminals(heap[mpo.network], mpo.current_cost)

\* a step that is a round of Phase 2 reporting a deactivation
DeactivatingRound ==
    /\ mpo.pc = "phase2"
    /\ mpo'.deactivation_iterations = mpo.deactivation_iterations + 1
    /\ RoundReport.deactivated

C28_Step ==
    DeactivatingRound =>
        /\ Flags(heap'[mpo.network]) # Flags(heap[mpo.network])
        /\ total_cost(heap'[mpo.network]) < total_cost(heap[mpo.network])
        /\ total_cost(heap'[mpo.network]) < mpo.current_cost
        /\ mpo'.current_cost = total_cost(heap'[mpo.network])
        /\ mpo'.pc = "finish" =>
              mpo'.deactivation_iterations = max_deactivation_iterations

\* C28: whenever a round of Phase 2 reports that it deactivated a terminal,
\* the cost recomputed on the network after the round is strictly lower than
\* the cost before it (and becomes the tracked cost); Phase 2 never ends
\* through the branch for a deactivating round without a cost reduction: after
\* such a round it ends only at the limit of rounds.
C28_DeactivatingRoundLowersCost == [][C28_Step]_vars

\* after a round that deactivated a terminal, Phase 2 is about to run another
C28_Witness ==
    /\ mpo.pc = "phase2"
    /\ mpo.deactivation_iterations >= 1
    /\ Flags(heap[mpo.network]) # Flags(mpo.start_network)
    /\ mpo.current_cost = total_cost(heap[mpo.network])
    /\ mpo.current_cost < mpo.initial_cost

----------------------------------------------------------------------------
(* Terminals the coordinate optimizer leaves alone (SpecMPO) *)

MpoStarted == mpo.pc \in {"pass", "phase2", "finish", "done", "raised"}

\* no terminal inactive when optimize() started is active or somewhere else
C29_Kept ==
    MpoStarted =>
        \A k \in DOMAIN mpo.start_network.terminals :
            ~mpo.start_network.terminals[k].is_active =>
                /\ ~heap[mpo.network].terminals[k].is_active
                /\ Place(heap[mpo.network], k) = Place(mpo.start_network, k)

C29_Step ==
    /\ mpo.pc = "pass" => Flags(heap'[mpo.network]) = Flags(heap[mpo.network])
    /\ mpo.pc \in {"phase2", "finish"} =>
          Places(heap'[mpo.network]) = Places(heap[mpo.network])

\* C29: CoordinateOptimizer.optimize() never activates a terminal that was
\* inactive when it started and never moves one: a step of Phase 1 changes no
\* is_active flag, a step of Phase 2 changes no coordinate, so the active
\* terminals during and after the run are among those active at the start and
\* a terminal inactive at the start stays where it was.
C29_InactiveStayClosedAndPut == []C29_Kept /\ [][C29_Step]_vars

\* optimize() returned on a network that had an inactive terminal, after
\* moving an active one
C29_Witness ==
    /\ mpo.pc = "done"
    /\ \E k \in DOMAIN mpo.start_network.terminals :
          /\ ~mpo.start_network.terminals[k].is_active
          /\ ~heap[mpo.network].terminals[k].is_active
          /\ Place(heap[mpo.network], k) = Place(mpo.start_network, k)
    /\ Places(heap[mpo.network]) # Places(mpo.start_network)
    /\ mpo.pass_number >= 1 /\ mpo.deactivation_iterations >= 1

----------------------------------------------------------------------------
(* The genetic optimizer with every chromosome it evaluated remembered       *)

\* terminals of which two share a place and differ in terminal_cost by the
\* least amount: 30.0 and 30.125
EvaluatedTerminalOptions ==
    { [x |-> F(0),  y |-> F(0), terminal_cost |-> F(30),     processing_cost |-> F(0)],
      [x |-> F(0),  y |-> F(0), terminal_cost |-> F(30) + 1, processing_cost |-> F(0)],
      [x |-> F(10), y |-> F(0), terminal_cost |-> F(8),      processing_cost |-> F(1)] }

EvaluatedInputs ==
    { [centers |-> <<Center(0, c)>>,
       terminals |-> [i \in 1 .. NumTerminals |-> Terminal(i, ts[i])],
       consumers |-> [i \in 1 .. NumConsumers |-> Consumer(NumTerminals + i, cs[i])]] :
      c \in CenterOptions,
      ts \in [1 .. NumTerminals -> EvaluatedTerminalOptions],
      cs \in [1 .. NumConsumers -> ConsumerOptions] }

InitEvaluated ==
    /\ input \in EvaluatedInputs
    /\ heap = <<>>
    /\ mpo = NoOptimizer
    /\ ga = NoOptimizer
    /\ cmp = [pc |-> "idle"]
    /\ probe = NoProbe

\* the chromosomes evaluated so far in this run of optimize()
EvaluatedSoFar == IF probe.op = "evaluated" THEN probe.chromosomes ELSE {}

Members(population) == { population[i] : i \in DOMAIN population }

\* optimize(verbose), lines 211-234, the initial population remembered
GaStartRecorded ==
    /\ ga.pc = "new"
    /\ GaStartWith(total_cost(heap[ga.network]))
    /\ probe' = [op |-> "evaluated", chromosomes |-> Members(ga'.population)]
    /\ UNCHANGED <<input, mpo, cmp>>

\* one generation (lines 237-288), its population remembered
GaGenerationRecorded ==
    /\ ga.pc = "evolve"
    /\ ga.generation < ga.generations
    /\ IF 1 < ga.population_size /\ Len(ga.population) < tournament_size
       THEN /\ ga' = [ga EXCEPT !.pc = "raised"]
            /\ heap' = heap
       ELSE \E new_population \in NewPopulations(ga) :
                GaEvaluated(new_population, Evaluate(heap[ga.network], new_population))
    /\ probe' = [op |-> "evaluated",
                 chromosomes |-> EvaluatedSoFar \cup Members(ga'.population)]
    /\ UNCHANGED <<input, mpo, cmp>>

NextEvaluated ==
    \/ Construct
    \/ GaNew
    \/ GaStartRecorded
    \/ GaGenerationRecorded
    \/ GaFinish

SpecEvaluated == InitEvaluated /\ [][NextEvaluated]_vars

\* the total cost of the network with chromosome c applied
CostOf(c) == total_cost(_apply_chromosome(heap[ga.network], c).net)

\* the network is the one the tracked best chromosome describes
BestApplied ==
    /\ \A k \in DOMAIN heap[ga.network].terminals :
          heap[ga.network].terminals[k].is_active <=> ga.best_chromosome[k] = 1
    /\ \A i \in DOMAIN heap[ga.network].consumers : NearestActive(heap[ga.network], i)
    /\ ga.final_cost = CostOf(ga.best_chromosome)

BestFitnessTracked ==
    ga.pc \in {"evolve", "done"} =>
        /\ ga.best_chromosome \in EvaluatedSoFar
        /\ ga.best_fitness = Fitness(CostOf(ga.best_chromosome))

\* C30 as stated: when GeneticOptimizer.optimize() returns, terminal i is
\* active iff bit i of the tracked best chromosome is 1, consumers are at
\* their nearest active terminal, and final_cost is the minimum total cost
\* over all chromosomes evaluated in the initial population and in every
\* generation; best_fitness is always the fitness of the tracked best
\* chromosome.
C30_FinalCostIsMinimumEvaluated ==
    /\ BestFitnessTracked
    /\ ga.pc = "done" =>
          /\ BestApplied
          /\ \A c \in EvaluatedSoFar : ga.final_cost <= CostOf(c)

\* C30 amended: when optimize() returns, the network is the one the tracked
\* best chromosome describes and final_cost is that chromosome's total cost;
\* the tracked best chromosome was evaluated, best_fitness is its fitness and
\* no evaluated chromosome has a greater fitness; an evaluated chromosome
\* costs less than final_cost only when its fitness 1.0 / (1.0 + cost) is the
\* same float as best_fitness.
C30_FinalCostIsOfFittestEvaluated ==
    /\ BestFitnessTracked
    /\ ga.pc \in {"evolve", "done"} =>
          \A c \in EvaluatedSoFar : Fitness(CostOf(c)) <= ga.best_fitness
    /\ ga.pc = "done" =>
          /\ BestApplied
          /\ \A c \in EvaluatedSoFar :
                CostOf(c) < ga.final_cost => Fitness(CostOf(c)) = ga.best_fitness

\* optimize() returned after a generation with a chromosome evaluated that
\* costs less than final_cost and one that costs more
C30_Witness ==
    /\ ga.pc = "done" /\ ga.generation >= 1
    /\ BestApplied
    /\ \E c \in EvaluatedSoFar : CostOf(c) < ga.final_cost
    /\ \E c \in EvaluatedSoFar : CostOf(c) > ga.final_cost

====
